---- MODULE Spec2Model ----
(***************************************************************************)
(* Payment settlement and subscription access of SubscribeHub: the         *)
(* payment_transactions ledger, the process_payment_webhook stored         *)
(* procedure (the State Transition Engine), the NOWPayments webhook        *)
(* handler, the reconciliation job, the manual payment override and the    *)
(* two payment-status polls.                                               *)
(*                                                                         *)
(* Time is counted in days.  A nullable timestamp column holds NULL or a   *)
(* day number >= 0.                                                        *)
(***************************************************************************)
EXTENDS Integers, Sequences, FiniteSets, TLC

\* ------------------------------------------------------------------ bounds

\* The clock runs from day 1 to day MaxNow.
MaxNow == 3

\* Webhook deliveries that may be in flight in one behaviour.
NumDeliveries == 2

\* Answers of the operation that one run of withRetry is given to meet.
MaxCalls == 4

\* Times the chat provider may start failing in one behaviour.
MaxOutages == 1

\* Invite links that may be created apart from the grants of the payments.
MaxLinks == 2

\* Users that may try to join through one invite link.
MaxJoins == 2

\* ------------------------------------------------------------- fixed data

\* SQL NULL of a timestamptz column.
NULL == -1

\* Replay window of the webhook handler, in milliseconds (5 * 60 * 1000).
WEBHOOK_MAX_AGE_MS == 300000

\* The rows of payment_transactions, by nowpayments_invoice_id: the columns
\* that are written once, when the invoice is created.
\* inv1 and inv3 are invoices of the subscriber, inv2 is the client's.
Invoices == {"inv1", "inv2", "inv3"}

\* The invoice of the subscriber and the invoice of the client that are open
\* from the start.
OpenInvoices == {"inv1", "inv2"}

\* An invoice id the ledger has no row for.
UnknownInvoice == "inv0"

InvoiceIds == OpenInvoices \cup {UnknownInvoice}

TxRow(inv) ==
  IF inv = "inv1"
  THEN [payment_type |-> "SUBSCRIBER_SUBSCRIPTION", plan_id |-> "planA",
        amount |-> 2, created_at |-> 1]
  ELSE IF inv = "inv3"
  THEN [payment_type |-> "SUBSCRIBER_SUBSCRIPTION", plan_id |-> "planC",
        amount |-> 2, created_at |-> 1]
  ELSE [payment_type |-> "PLATFORM_SUBSCRIPTION", plan_id |-> "planB",
        amount |-> 2, created_at |-> 1]

\* subscription_plans.duration_days
DurationDays(plan) == IF plan = "planA" THEN 3 ELSE 2

\* What the processor can report as payment_status; "zzz" is a string the
\* code knows nothing about.
ReportedStatuses ==
  {"waiting", "confirming", "sending", "finished", "confirmed",
   "partially_paid", "expired", "failed", "refunded", "zzz"}

\* What the processor can report as actually_paid (the amount due is 2).
Paids == {0, 1, 2}

\* config.NOWPAYMENTS_IPN_SECRET when it is set, and when it is not.
Secret == "ipn-secret"
NoSecret == ""

\* The ways one JSON document can be written: its keys in the processor's
\* order or in another, with or without whitespace between the tokens.
KeyOrders == {"sorted", "other"}

\* The bytes of a request body.
RawBody(inv, reported, paid, keys, spaced) ==
  [invoice_id |-> inv, payment_status |-> reported, actually_paid |-> paid,
   keys |-> keys, spaced |-> spaced]

\* No bytes at all.
NoBody == RawBody("", "", 0, "sorted", FALSE)

\* The body parser of the server: request.body is the object the bytes
\* denote; an object keeps the order its keys were read in and nothing of
\* the whitespace.
Parse(raw) ==
  [invoice_id |-> raw.invoice_id, payment_status |-> raw.payment_status,
   actually_paid |-> raw.actually_paid, keys |-> raw.keys]

\* JSON.stringify(value): the keys in the object's order, no whitespace.
Stringify(obj) ==
  RawBody(obj.invoice_id, obj.payment_status, obj.actually_paid, obj.keys, FALSE)

\* Length of the hex digest of HMAC-SHA512.
DigestLen == 128

\* The hex digest of HMAC-SHA512 of text under secret: different texts or
\* different secrets have different digests.
Hmac(text, secret) == [len |-> DigestLen, text |-> text, secret |-> secret]

\* A string of len characters that is no digest.
Malformed(len) == [len |-> len, text |-> NoBody, secret |-> NoSecret]

\* A request without the x-nowpayments-sig header.
NoSignature == Malformed(NULL)

\* The empty string.
EmptySignature == Malformed(0)

\* signature || ''
SignatureOrEmpty(sig) == IF sig = NoSignature THEN EmptySignature ELSE sig

\* validateWebhookSignature(payload, signature, secret) of the NOWPayments
\* integration: true for the HMAC-SHA512 hex digest of payload under secret,
\* false for every other string, of any length.
validateWebhookSignature(payload, signature, secret) ==
  signature = Hmac(payload, secret)

\* const rawBody = JSON.stringify(request.body);
\* validateWebhookSignature(rawBody, signature || '', secret)
HandlerAccepts(raw, sig, secret) ==
  validateWebhookSignature(Stringify(Parse(raw)), SignatureOrEmpty(sig), secret)

\* The body and headers of a webhook request, as far as the handler reads
\* them: sigValid says whether x-nowpayments-sig matches the body, ageMs is
\* Date.now() minus updated_at when the body has an updated_at; raw and sig
\* are the bytes and the header when they are told apart, secret is the
\* configured secret the request meets.
Notification(inv, reported, paid, sigValid, hasTimestamp, ageMs) ==
  [invoice_id |-> inv, payment_status |-> reported, actually_paid |-> paid,
   sigValid |-> sigValid, hasTimestamp |-> hasTimestamp, ageMs |-> ageMs,
   raw |-> NoBody, sig |-> NoSignature, secret |-> Secret]

\* A request of given bytes and signature header, met by a server configured
\* with secret.
SignedRequest(raw, sig, secret) ==
  [Notification(raw.invoice_id, raw.payment_status, raw.actually_paid,
                HandlerAccepts(raw, sig, secret), FALSE, 0)
     EXCEPT !.raw = raw, !.sig = sig, !.secret = secret]

\* Notifications that pass the signature check and carry no updated_at.
Accepted(invs, statuses, paids) ==
  {Notification(i, s, p, TRUE, FALSE, 0) : i \in invs, s \in statuses, p \in paids}

\* A settled, fully paid notification with a bad signature, and the same
\* with updated_at four, five and six minutes old and one minute ahead.
Doubtful(invs) ==
  {Notification(i, "finished", 2, FALSE, FALSE, 0) : i \in invs}
  \cup {Notification(i, "finished", 2, TRUE, TRUE, a) :
          i \in invs, a \in {240000, 300000, 360000, 0 - 60000}}

\* Settled, fully paid notifications with a good or a bad signature, without
\* updated_at or with one that is a minute ahead, just made, four minutes
\* old, a millisecond short of five minutes, five minutes, a millisecond
\* more, and six minutes old.
Timed(invs) ==
  {Notification(i, "finished", 2, v, FALSE, 0) : i \in invs, v \in BOOLEAN}
  \cup {Notification(i, "finished", 2, v, TRUE, a) :
          i \in invs, v \in BOOLEAN,
          a \in {0 - 60000, 0, 240000, 299999, 300000, 300001, 360000}}

Deliveries == {<<"webhook", i>> : i \in 1..NumDeliveries}

\* The two status polls: the selling bot's (1) and the main bot's (2).
SubscriberPoll == <<"poll", 1>>
PlatformPoll == <<"poll", 2>>
Polls == {SubscriberPoll, PlatformPoll}

\* Everything that calls the stored procedure.
Callers == Deliveries \cup Polls

\* ------------------------------------------------------------------ state

VARIABLES
  now,        \* the clock, in days
  tx,         \* payment_transactions: invoice -> [payment_status, confirmed_at]
  sub,        \* the subscribers row
  client,     \* the clients row
  accessLog,  \* access_control_logs: the performed_by of each GRANT row
  grants,     \* invocations of grantChannelAccess
  rpc,        \* calls of process_payment_webhook, by caller
  wh,         \* webhook deliveries
  ov,         \* runs of manuallyProcessPayment: the admin's and the sweep's
  rec,        \* the reconciliation job
  poll,       \* the status polls
  confirmPaid, \* invoice -> actually_paid of the report whose handling set CONFIRMED
  sub0,       \* the subscribers row as it was before any payment was handled
  chat,       \* the chat provider and the subscriber's standing in the channel
  exp,        \* the expiration job
  retry,      \* a run of withRetry
  peer        \* the subscribers row of another subscriber of the same channel

vars == <<now, tx, sub, client, accessLog, grants, rpc, wh, ov, rec, poll, confirmPaid, sub0,
          chat, exp, retry, peer>>

\* A call of the procedure that is not under way.  status and action are
\* those of the JSON the procedure returns, expected and received the amounts
\* it reports with a partial payment; error says that the call itself failed
\* and brought no JSON back.
IdleRpc ==
  [st |-> "idle", inv |-> UnknownInvoice, reported |-> "", paid |-> 0,
   t0 |-> NULL, newEnd |-> NULL, status |-> "", action |-> "",
   expected |-> NULL, received |-> NULL, error |-> FALSE]

\* A request that is not being served; sigValid, hasTimestamp, ageMs, raw, sig
\* and secret are those of the notification in hand, grant is how its
\* grantChannelAccess went.
IdleDelivery ==
  [pc |-> "idle", code |-> 0, sigValid |-> TRUE, hasTimestamp |-> FALSE, ageMs |-> 0,
   grant |-> "", raw |-> NoBody, sig |-> NoSignature, secret |-> Secret]

\* The chat provider answers (up) or fails, having failed outages times so
\* far; the subscriber holds an unused invite link (invited), is in the
\* channel (member), is banned from it (ban: none, timed or forever); log is
\* the rows the access control service added to access_control_logs; links
\* are the invite links of the channel, each with its member_limit and the
\* number of users who joined through it.
InitialChat ==
  [up |-> TRUE, outages |-> 0, invited |-> FALSE, member |-> FALSE, ban |-> "none",
   log |-> <<>>, links |-> <<>>]

\* The expiration job: queue is the rest of the list getExpiredSubscriptions
\* returned, the subscriber in hand at its head; i is the attempt of
\* withRetry the revocation is in.  Of one run: selected are the subscribers
\* the list held, raised those whose turn ended in the catch of the loop,
\* revoked those revokeChannelAccess was called for, unremoved those whose
\* removal from the channel failed.
IdleExpiration ==
  [pc |-> "idle", i |-> 0, queue |-> <<>>, selected |-> {}, raised |-> {},
   revoked |-> {}, unremoved |-> {}]

\* Another subscriber of the channel who owes nothing and is not in it.
NoPeer ==
  [subscription_status |-> "PENDING_PAYMENT", subscription_end_date |-> NULL,
   member |-> FALSE]

\* Another subscriber of the channel whose period ended before the clock
\* started and who is still in the channel.
LapsedPeer ==
  [subscription_status |-> "ACTIVE", subscription_end_date |-> 0, member |-> TRUE]

\* A run of withRetry: script is what the operation answers, call after
\* call; i is the loop counter, calls the number of calls made, slept the
\* waits in milliseconds, error the error_code thrown to the caller.
IdleRetry ==
  [pc |-> "idle", script |-> <<>>, i |-> 0, calls |-> 0, slept |-> <<>>, error |-> NULL]

\* ------------------------------------------ process_payment_webhook (SQL)

\* IF p_payment_status = 'finished' OR p_payment_status = 'confirmed'
IsSettled(reported) == reported = "finished" \/ reported = "confirmed"

\* The CASE of the ELSE branch.
OtherStatus(reported) ==
  CASE reported = "waiting" -> "PENDING"
    [] reported = "confirming" -> "CONFIRMING"
    [] reported = "expired" -> "EXPIRED"
    [] reported = "failed" -> "FAILED"
    [] OTHER -> "PENDING"

\* The platform branch as it was first written: thirty days from now,
\* whatever the plan and whatever is left of the period.
NewEndDateSimplified(status, end, t, days) == t + 30

\* A renewal that always starts from now, whatever is left of the period.
NewEndDateFromNow(status, end, t, days) == t + days

\* CASE WHEN status = 'ACTIVE' AND end > now() THEN end + days ELSE now() + days
NewEndDate(status, end, t, days) ==
  IF status = "ACTIVE" /\ end # NULL /\ end > t THEN end + days ELSE t + days

\* COALESCE(a, b)
Coalesce(a, b) == IF a # NULL THEN a ELSE b

\* An idempotency check that is left out.
NeverAlreadyConfirmed(status) == FALSE

\* An idempotency check against the wrong status.
AlreadyConfirming(status) == status = "CONFIRMING"

\* IF v_transaction.payment_status = 'CONFIRMED' THEN RETURN ... 'action', 'none'
AlreadyConfirmed(status) == status = "CONFIRMED"

\* A partial payment check that never finds a payment short.
NeverPartial(paid, amount) == FALSE

\* IF p_actually_paid < v_transaction.amount
PartialPayment(paid, amount) == paid < amount

\* SELECT ... FOR UPDATE blocks while another call holds the row; so does an
\* UPDATE of the row from outside the procedure.
RowLocked(inv) == \E c \in Callers : rpc[c].st = "locked" /\ rpc[c].inv = inv

Call(c, inv, reported, paid) ==
  [rpc EXCEPT ![c] = [IdleRpc EXCEPT !.st = "called", !.inv = inv,
                                     !.reported = reported, !.paid = paid]]

Return(c, status, action) ==
  [rpc EXCEPT ![c] = [IdleRpc EXCEPT !.st = "returned", !.inv = rpc[c].inv,
                                     !.status = status, !.action = action]]

\* The procedure up to the point where the subscription row is read: the row
\* lock, the idempotency check, the partial payment check and the ELSE branch.
\* The branches that write the transaction alone commit in this step.  now()
\* is the time the procedure's transaction started.
RpcBegin(c) ==
  /\ rpc[c].st = "called"
  /\ LET inv == rpc[c].inv
         reported == rpc[c].reported
         paid == rpc[c].paid
     IN IF inv \notin Invoices
        THEN /\ rpc' = Return(c, "error", "")
             /\ UNCHANGED tx
        ELSE /\ ~RowLocked(inv)
             /\ IF AlreadyConfirmed(tx[inv].payment_status)
                THEN /\ rpc' = Return(c, "success", "none")
                     /\ UNCHANGED tx
                ELSE IF IsSettled(reported)
                THEN IF PartialPayment(paid, TxRow(inv).amount)
                     THEN /\ tx' = [tx EXCEPT ![inv].payment_status = "FAILED"]
                          /\ rpc' = [Return(c, "error", "partial") EXCEPT
                               ![c].expected = TxRow(inv).amount,
                               ![c].received = paid]
                     ELSE /\ rpc' = [rpc EXCEPT
                               ![c].st = "locked",
                               ![c].t0 = now,
                               ![c].newEnd =
                                 IF TxRow(inv).payment_type = "SUBSCRIBER_SUBSCRIPTION"
                                 THEN NewEndDate(sub.subscription_status,
                                                 sub.subscription_end_date, now,
                                                 DurationDays(TxRow(inv).plan_id))
                                 ELSE NewEndDate(client.status,
                                                 client.platform_subscription_end, now,
                                                 DurationDays(TxRow(inv).plan_id))]
                          /\ UNCHANGED tx
                ELSE /\ tx' = [tx EXCEPT ![inv].payment_status = OtherStatus(reported)]
                     /\ rpc' = Return(c, "updated", "")
  /\ UNCHANGED <<chat, exp, retry, peer, sub0, now, sub, client, accessLog, grants, wh, ov, rec, poll, confirmPaid>>

\* UPDATE payment_transactions SET payment_status = 'CONFIRMED', confirmed_at
ConfirmedTx(c) ==
  [tx EXCEPT ![rpc[c].inv] =
     [payment_status |-> "CONFIRMED", confirmed_at |-> rpc[c].t0]]

\* UPDATE subscribers SET subscription_status = 'ACTIVE', ...
ActivatedSubscriber(c) ==
  [subscription_status |-> "ACTIVE",
   subscription_start_date |-> Coalesce(sub.subscription_start_date, rpc[c].t0),
   subscription_end_date |-> rpc[c].newEnd,
   subscription_plan_id |-> TxRow(rpc[c].inv).plan_id]

\* UPDATE clients SET status = 'ACTIVE', ...
ActivatedClient(c) ==
  [status |-> "ACTIVE",
   platform_subscription_plan_id |-> TxRow(rpc[c].inv).plan_id,
   platform_subscription_start |-> Coalesce(client.platform_subscription_start, rpc[c].t0),
   platform_subscription_end |-> rpc[c].newEnd]

\* The rest of the confirming branch and the commit: the transaction becomes
\* CONFIRMED, the subscriber or the client is activated, the row lock goes.
RpcCommit(c) ==
  /\ rpc[c].st = "locked"
  /\ LET inv == rpc[c].inv
     IN /\ tx' = ConfirmedTx(c)
        /\ confirmPaid' = [confirmPaid EXCEPT ![inv] = rpc[c].paid]
        /\ IF TxRow(inv).payment_type = "SUBSCRIBER_SUBSCRIPTION"
           THEN /\ sub' = ActivatedSubscriber(c)
                /\ accessLog' = Append(accessLog, "SYSTEM")
                /\ rpc' = Return(c, "success", "activated_subscriber")
                /\ UNCHANGED client
           ELSE /\ client' = ActivatedClient(c)
                /\ rpc' = Return(c, "success", "activated_client")
                /\ UNCHANGED <<sub, accessLog>>
  /\ UNCHANGED <<chat, exp, retry, peer, sub0, now, grants, wh, ov, rec, poll>>

\* The statements of the confirming branch that write, in their order, for
\* each payment type.
Statements(paymentType) ==
  IF paymentType = "SUBSCRIBER_SUBSCRIPTION"
  THEN <<"update_transaction", "update_subscriber", "insert_log">>
  ELSE <<"update_transaction", "update_client">>

\* The statements that ran before the k-th one.
Before(paymentType, k) == {Statements(paymentType)[j] : j \in 1..(k - 1)}

\* A procedure without the EXCEPTION clause's savepoint, whose statements
\* stay written when a later one raises.
KeptWithoutSavepoint(done) == done

\* EXCEPTION WHEN others: the block's writes are rolled back to the savepoint
\* set at BEGIN before the handler runs, so none of the statements that ran
\* is kept.
KeptAfterException(done) == {}

\* A statement of the confirming branch raises: the k-th one.  The handler
\* returns status error with the message of the failure.
RpcFail(c, k) ==
  /\ rpc[c].st = "locked"
  /\ LET inv == rpc[c].inv
         type == TxRow(inv).payment_type
         kept == KeptAfterException(Before(type, k))
     IN /\ k \in 1..Len(Statements(type))
        /\ tx' = IF "update_transaction" \in kept THEN ConfirmedTx(c) ELSE tx
        /\ confirmPaid' = IF "update_transaction" \in kept
                          THEN [confirmPaid EXCEPT ![inv] = rpc[c].paid]
                          ELSE confirmPaid
        /\ sub' = IF "update_subscriber" \in kept THEN ActivatedSubscriber(c) ELSE sub
        /\ client' = IF "update_client" \in kept THEN ActivatedClient(c) ELSE client
        /\ rpc' = Return(c, "error", Statements(type)[k])
  /\ UNCHANGED <<chat, exp, retry, peer, sub0, now, accessLog, grants, wh, ov, rec, poll>>

\* The call does not come back with a result: the database cannot be
\* reached or the connection is lost, and the open transaction, if any, is
\* rolled back.  supabase.rpc resolves with error set.
RpcUnreachable(c) ==
  /\ rpc[c].st \in {"called", "locked"}
  /\ rpc' = [Return(c, "", "") EXCEPT ![c].error = TRUE]
  /\ UNCHANGED <<chat, exp, retry, peer, sub0, now, tx, sub, client, accessLog, grants, wh, ov, rec,
                 poll, confirmPaid>>

\* --------------------------------------------- POST /webhooks/nowpayments

\* A replay window that is closed at five minutes sharp.
ReplayRejectedAtWindow(hasTimestamp, ageMs) == hasTimestamp /\ ageMs >= WEBHOOK_MAX_AGE_MS

\* if (payload.updated_at) { if (now - webhookTime > WEBHOOK_MAX_AGE_MS) 400 }
ReplayRejected(hasTimestamp, ageMs) == hasTimestamp /\ ageMs > WEBHOOK_MAX_AGE_MS

\* if (txStatus === 'CONFIRMED') return 200 already_processed
PreCheckSkips(inv) == inv \in Invoices /\ tx[inv].payment_status = "CONFIRMED"

\* A handler that goes on without a configured secret.
SecretNeverMissing(secret) == FALSE

\* if (!config.NOWPAYMENTS_IPN_SECRET) return 500
SecretMissing(secret) == secret = NoSecret

\* A handler that calls the procedure with whatever it receives and
\* validates nothing.
WebhookReceiveUnchecked(d, n) ==
  /\ wh[d].pc = "idle"
  /\ wh' = [wh EXCEPT ![d] = [IdleDelivery EXCEPT !.pc = "rpc",
                                                  !.sigValid = n.sigValid,
                                                  !.hasTimestamp = n.hasTimestamp,
                                                  !.ageMs = n.ageMs]]
  /\ rpc' = Call(d, n.invoice_id, n.payment_status, n.actually_paid)
  /\ UNCHANGED <<chat, exp, retry, peer, sub0, now, tx, sub, client, accessLog, grants, ov, rec, poll, confirmPaid>>

\* The handler down to the call of the procedure: signature, replay window,
\* the idempotency pre-check on the ledger, and the call itself.
WebhookReceive(d, n) ==
  /\ wh[d].pc = "idle"
  /\ LET req == [IdleDelivery EXCEPT !.sigValid = n.sigValid,
                                     !.hasTimestamp = n.hasTimestamp,
                                     !.ageMs = n.ageMs,
                                     !.raw = n.raw, !.sig = n.sig,
                                     !.secret = n.secret]
     IN IF SecretMissing(n.secret)
        THEN /\ wh' = [wh EXCEPT ![d] = [req EXCEPT !.pc = "done", !.code = 500]]
             /\ UNCHANGED rpc
        ELSE IF ~n.sigValid
        THEN /\ wh' = [wh EXCEPT ![d] = [req EXCEPT !.pc = "done", !.code = 403]]
             /\ UNCHANGED rpc
        ELSE IF ReplayRejected(n.hasTimestamp, n.ageMs)
        THEN /\ wh' = [wh EXCEPT ![d] = [req EXCEPT !.pc = "done", !.code = 400]]
             /\ UNCHANGED rpc
        ELSE IF PreCheckSkips(n.invoice_id)
        THEN /\ wh' = [wh EXCEPT ![d] = [req EXCEPT !.pc = "done", !.code = 200]]
             /\ UNCHANGED rpc
        ELSE /\ wh' = [wh EXCEPT ![d] = [req EXCEPT !.pc = "rpc"]]
             /\ rpc' = Call(d, n.invoice_id, n.payment_status, n.actually_paid)
  /\ UNCHANGED <<chat, exp, retry, peer, sub0, now, tx, sub, client, accessLog, grants, ov, rec, poll, confirmPaid>>

\* A handler that starts the post-payment actions whatever the result.
TriggersAlways(status, action) == TRUE

\* if (response.status === 'success' && response.action === 'activated_subscriber')
TriggersPostPayment(status, action) ==
  status = "success" /\ action = "activated_subscriber"

\* The handler after the procedure returned: a failed call is answered 500,
\* the post-payment actions are started for an activated subscriber, every
\* other result is answered 200.
WebhookReturn(d) ==
  /\ wh[d].pc = "rpc"
  /\ rpc[d].st = "returned"
  /\ IF rpc[d].error
     THEN wh' = [wh EXCEPT ![d].pc = "done", ![d].code = 500]
     ELSE IF TriggersPostPayment(rpc[d].status, rpc[d].action)
     THEN wh' = [wh EXCEPT ![d].pc = "post"]
     ELSE wh' = [wh EXCEPT ![d].pc = "done", ![d].code = 200]
  /\ rpc' = [rpc EXCEPT ![d] = IdleRpc]
  /\ UNCHANGED <<chat, exp, retry, peer, sub0, now, tx, sub, client, accessLog, grants, ov, rec, poll, confirmPaid>>

\* options or options.memberLimit is undefined.
NoOption == NULL

\* A link that takes the limit as it is given, and none when none is given
\* (the provider reads 0 as no limit).
MemberLimitAsGiven(option) == IF option = NoOption THEN 0 ELSE option

\* member_limit: options?.memberLimit || 1
MemberLimit(option) == IF option = NoOption \/ option = 0 THEN 1 ELSE option

\* bot.api.createChatInviteLink(channelId, {..., member_limit}) makes a link
\* nobody has used yet.
InviteLink(option) == [member_limit |-> MemberLimit(option), joined |-> 0]

\* grantChannelAccess of the access control service, asking for an invite
\* link with the given memberLimit: the link is created and sent to the
\* subscriber, and a GRANT row is logged.
GrantedWith(ch, option) ==
  [ch EXCEPT !.invited = TRUE, !.links = Append(@, InviteLink(option)),
             !.log = Append(@, "GRANT")]

\* grantChannelAccess asks for memberLimit: 1.
Granted(ch) == GrantedWith(ch, 1)

\* A grant whose caller names no limit or the limit 0.
GrantWithout(option) ==
  /\ chat.up
  /\ option \in {NoOption, 0}
  /\ Len(chat.links) < MaxLinks
  /\ chat' = GrantedWith(chat, option)
  /\ UNCHANGED <<exp, retry, peer, sub0, now, tx, sub, client, accessLog, grants, rpc, wh, ov, rec,
                 poll, confirmPaid>>

\* The provider's side of an invite link: a user opens link l and is let in
\* while fewer users than member_limit have joined through it, or while the
\* link has no limit.
UserJoins(l) ==
  /\ l \in 1..Len(chat.links)
  /\ chat.links[l].joined < MaxJoins
  /\ chat.links[l].member_limit = 0 \/ chat.links[l].joined < chat.links[l].member_limit
  /\ chat' = [chat EXCEPT !.links[l].joined = @ + 1]
  /\ UNCHANGED <<exp, retry, peer, sub0, now, tx, sub, client, accessLog, grants, rpc, wh, ov, rec,
                 poll, confirmPaid>>

\* Post-payment actions that take the confirmation back when the grant
\* fails.
WebhookPostPaymentUndoing(d) ==
  /\ wh[d].pc = "post"
  /\ grants' = grants + 1
  /\ IF chat.up
     THEN /\ chat' = Granted(chat)
          /\ wh' = [wh EXCEPT ![d].pc = "done", ![d].code = 200, ![d].grant = "ok"]
          /\ UNCHANGED <<tx, sub>>
     ELSE /\ chat' = chat
          /\ wh' = [wh EXCEPT ![d].pc = "done", ![d].code = 500, ![d].grant = "failed"]
          /\ tx' = [tx EXCEPT !["inv1"].payment_status = "PENDING"]
          /\ sub' = sub0
  /\ UNCHANGED <<exp, retry, peer, sub0, now, client, accessLog, rpc, ov, rec, poll, confirmPaid>>

\* triggerPostPaymentActions: the subscriber of the invoice is granted
\* access.  When the provider fails, grantChannelAccess either reports the
\* failure itself or raises, which the handler's catch answers with 500.
WebhookPostPayment(d) ==
  /\ wh[d].pc = "post"
  /\ grants' = grants + 1
  /\ IF chat.up
     THEN /\ chat' = Granted(chat)
          /\ wh' = [wh EXCEPT ![d].pc = "done", ![d].code = 200, ![d].grant = "ok"]
     ELSE /\ chat' = chat
          /\ \E raises \in BOOLEAN :
               wh' = [wh EXCEPT ![d].pc = "done",
                                ![d].code = IF raises THEN 500 ELSE 200,
                                ![d].grant = "failed"]
  /\ UNCHANGED <<exp, retry, peer, sub0, now, tx, sub, client, accessLog, rpc, ov, rec, poll, confirmPaid>>

\* The response is sent; the next request can be served.
WebhookClose(d) ==
  /\ wh[d].pc = "done"
  /\ wh' = [wh EXCEPT ![d] = IdleDelivery]
  /\ UNCHANGED <<chat, exp, retry, peer, sub0, now, tx, sub, client, accessLog, grants, rpc, ov, rec, poll, confirmPaid>>

\* ------------------------------------------------- manuallyProcessPayment

Overriders == {"admin", "recon"}

IdleOverride == [pc |-> "idle", inv |-> UnknownInvoice, t |-> NULL, paid |-> NULL]

\* The checks on the transaction read at the start: it exists, it is not
\* CONFIRMED, it is a subscriber payment (whose subscriber exists).
OverrideRefused(inv) ==
  \/ inv \notin Invoices
  \/ tx[inv].payment_status = "CONFIRMED"
  \/ TxRow(inv).payment_type # "SUBSCRIBER_SUBSCRIPTION"

\* endDate.setDate(endDate.getDate() + plan.duration_days), from now
OverrideEndDate(t, days) == t + days

\* The first read: the transaction with its subscriber.  paid is the
\* actually_paid of the processor's report that led here, NULL when an admin
\* started the override.
OverrideRead(o, inv, paid) ==
  /\ ov[o].pc = "idle"
  /\ IF OverrideRefused(inv)
     THEN ov' = [ov EXCEPT ![o] = [IdleOverride EXCEPT !.pc = "failed"]]
     ELSE ov' = [ov EXCEPT ![o] = [IdleOverride EXCEPT !.pc = "plan", !.inv = inv,
                                                       !.paid = paid]]
  /\ UNCHANGED <<chat, exp, retry, peer, sub0, now, tx, sub, client, accessLog, grants, rpc, wh, poll, confirmPaid>>

\* The plan is read, then now = new Date().
OverridePlan(o) ==
  /\ ov[o].pc = "plan"
  /\ ov' = [ov EXCEPT ![o].pc = "writeTx", ![o].t = now]
  /\ UNCHANGED <<chat, exp, retry, peer, sub0, now, tx, sub, client, accessLog, grants, rpc, wh, rec, poll, confirmPaid>>

\* update payment_transactions set payment_status = 'CONFIRMED', confirmed_at
OverrideWriteTx(o) ==
  /\ ov[o].pc = "writeTx"
  /\ ~RowLocked(ov[o].inv)
  /\ tx' = [tx EXCEPT ![ov[o].inv] =
              [payment_status |-> "CONFIRMED", confirmed_at |-> ov[o].t]]
  /\ confirmPaid' = [confirmPaid EXCEPT ![ov[o].inv] = ov[o].paid]
  /\ ov' = [ov EXCEPT ![o].pc = "writeSub"]
  /\ UNCHANGED <<chat, exp, retry, peer, sub0, now, sub, client, accessLog, grants, rpc, wh, rec, poll>>

\* update subscribers set ACTIVE, start = now, end = now + duration, plan
OverrideWriteSub(o) ==
  /\ ov[o].pc = "writeSub"
  /\ sub' = [subscription_status |-> "ACTIVE",
             subscription_start_date |-> ov[o].t,
             subscription_end_date |->
               OverrideEndDate(ov[o].t, DurationDays(TxRow(ov[o].inv).plan_id)),
             subscription_plan_id |-> TxRow(ov[o].inv).plan_id]
  /\ ov' = [ov EXCEPT ![o].pc = "log"]
  /\ UNCHANGED <<chat, exp, retry, peer, sub0, now, tx, client, accessLog, grants, rpc, wh, rec, poll, confirmPaid>>

\* insert into access_control_logs: GRANT by ADMIN
OverrideLog(o) ==
  /\ ov[o].pc = "log"
  /\ accessLog' = Append(accessLog, "ADMIN")
  /\ ov' = [ov EXCEPT ![o].pc = "grant"]
  /\ UNCHANGED <<chat, exp, retry, peer, sub0, now, tx, sub, client, grants, rpc, wh, rec, poll, confirmPaid>>

\* grantChannelAccess, then { success: true }; when grantChannelAccess
\* raises, the catch returns { success: false }.
OverrideGrant(o) ==
  /\ ov[o].pc = "grant"
  /\ grants' = grants + 1
  /\ IF chat.up
     THEN /\ chat' = Granted(chat)
          /\ ov' = [ov EXCEPT ![o] = [IdleOverride EXCEPT !.pc = "ok"]]
     ELSE /\ chat' = chat
          /\ \E raises \in BOOLEAN :
               ov' = [ov EXCEPT ![o] = [IdleOverride EXCEPT
                                          !.pc = IF raises THEN "failed" ELSE "ok"]]
  /\ UNCHANGED <<exp, retry, peer, sub0, now, tx, sub, client, accessLog, rpc, wh, rec, poll, confirmPaid>>

\* An admin processes a payment by hand.
ManualOverride(inv) ==
  /\ OverrideRead("admin", inv, NULL)
  /\ UNCHANGED rec

\* ------------------------------------------------ runPaymentReconciliation

\* reported is paymentData.payment_status of the last response that was ok;
\* selected is the result of the query, examined the transactions whose turn
\* of the loop is over, failed those whose turn met a failure.
IdleRecon ==
  [pc |-> "idle", yesterday |-> NULL, queue |-> <<>>, paid |-> NULL, healed |-> 0,
   errors |-> 0, notified |-> FALSE, reported |-> "", selected |-> <<>>,
   examined |-> <<>>, failed |-> {}]

\* The turn of the first transaction of the queue is over: the loop goes on
\* to the next one.
ReconTurnOver(r) ==
  [r EXCEPT !.queue = Tail(@), !.examined = Append(@, Head(r.queue))]

\* A loop that a failure ends.
ReconErrorAborting(r) ==
  [r EXCEPT !.errors = @ + 1, !.failed = @ \cup {Head(r.queue)},
            !.examined = Append(@, Head(r.queue)), !.queue = <<>>]

\* errorCount++ after a response that is not ok, after an exception in the
\* try block and after a heal that did not succeed; the loop goes on.
ReconError(r) ==
  ReconTurnOver([r EXCEPT !.errors = @ + 1, !.failed = @ \cup {Head(r.queue)}])

\* yesterday.setDate(yesterday.getDate() - 1)
Yesterday(t) == t - 1

\* .in('payment_status', ['PENDING', 'CONFIRMING']).gte('created_at', yesterday)
\* .eq('payment_type', 'SUBSCRIBER_SUBSCRIPTION')
ReconSelected(inv) ==
  /\ tx[inv].payment_status \in {"PENDING", "CONFIRMING"}
  /\ TxRow(inv).created_at >= Yesterday(now)
  /\ TxRow(inv).payment_type = "SUBSCRIBER_SUBSCRIPTION"

\* The selected rows, in the order of the invoice ids.
ReconQueue ==
  (IF ReconSelected("inv1") THEN <<"inv1">> ELSE <<>>)
  \o (IF ReconSelected("inv2") THEN <<"inv2">> ELSE <<>>)
  \o (IF ReconSelected("inv3") THEN <<"inv3">> ELSE <<>>)

\* ['finished', 'confirmed', 'partially_paid'] without 'finished'
ReconMismatchWithoutFinished(reported) == reported \in {"confirmed", "partially_paid"}

\* ['finished', 'confirmed', 'partially_paid'].includes(payment_status)
ReconMismatch(reported) == reported \in {"finished", "confirmed", "partially_paid"}

ReconSelect ==
  /\ rec.pc = "idle"
  /\ rec' = IF ReconQueue = <<>>
            THEN [IdleRecon EXCEPT !.pc = "done", !.yesterday = Yesterday(now)]
            ELSE [IdleRecon EXCEPT !.pc = "loop", !.yesterday = Yesterday(now),
                                   !.queue = ReconQueue, !.selected = ReconQueue]
  /\ UNCHANGED <<chat, exp, retry, peer, sub0, now, tx, sub, client, accessLog, grants, rpc, wh, ov, poll, confirmPaid>>

\* GET /payment/{invoice}: the response is not ok or the request raises, or
\* the response carries the processor's payment_status and actually_paid.
ReconFetch(ok, reported, paid) ==
  /\ rec.pc = "loop"
  /\ rec.queue # <<>>
  /\ IF ~ok
     THEN rec' = ReconError(rec)
     ELSE IF ReconMismatch(reported)
     THEN rec' = [rec EXCEPT !.pc = "heal", !.paid = paid, !.reported = reported]
     ELSE rec' = ReconTurnOver([rec EXCEPT !.reported = reported])
  /\ UNCHANGED <<chat, exp, retry, peer, sub0, now, tx, sub, client, accessLog, grants, rpc, wh, ov, poll, confirmPaid>>

\* manuallyProcessPayment(tx.id, 'SYSTEM_RECONCILIATION') starts.
ReconHeal ==
  /\ rec.pc = "heal"
  /\ OverrideRead("recon", Head(rec.queue), rec.paid)
  /\ rec' = [rec EXCEPT !.pc = "healing", !.paid = NULL]

\* ... and returns: result.success counts as reconciled, else as an error.
ReconHealed ==
  /\ rec.pc = "healing"
  /\ ov["recon"].pc \in {"ok", "failed"}
  /\ rec' = IF ov["recon"].pc = "ok"
            THEN ReconTurnOver([rec EXCEPT !.pc = "loop", !.healed = @ + 1,
                                           !.reported = ""])
            ELSE ReconError([rec EXCEPT !.pc = "loop", !.reported = ""])
  /\ ov' = [ov EXCEPT !["recon"] = IdleOverride]
  /\ UNCHANGED <<chat, exp, retry, peer, sub0, now, tx, sub, client, accessLog, grants, rpc, wh, poll, confirmPaid>>

\* The job is scheduled again after a run.
ReconRestart ==
  /\ rec.pc = "done"
  /\ rec' = IdleRecon
  /\ UNCHANGED <<chat, exp, retry, peer, sub0, now, tx, sub, client, accessLog, grants, rpc, wh, ov, poll, confirmPaid>>

\* After the loop: the admin is told when something was healed or failed.
ReconFinish ==
  /\ rec.pc = "loop"
  /\ rec.queue = <<>>
  /\ rec' = [rec EXCEPT !.pc = "done", !.notified = (rec.healed > 0 \/ rec.errors > 0),
                         !.reported = ""]
  /\ UNCHANGED <<chat, exp, retry, peer, sub0, now, tx, sub, client, accessLog, grants, rpc, wh, ov, poll, confirmPaid>>

\* ------------------------- checkPaymentStatus, checkPlatformPaymentStatus

\* mapPaymentStatus of shared/integrations/nowpayments (lower-cased input)
mapPaymentStatus(reported) ==
  CASE reported \in {"waiting", "pending"} -> "PENDING"
    [] reported \in {"confirming", "sending"} -> "CONFIRMING"
    [] reported \in {"finished", "confirmed", "partially_paid"} -> "CONFIRMED"
    [] reported = "failed" -> "FAILED"
    [] reported = "expired" -> "EXPIRED"
    [] reported = "refunded" -> "REFUNDED"
    [] OTHER -> "PENDING"

IdlePoll == [pc |-> "idle", seen |-> "", newStatus |-> "", paid |-> 0]

\* The transaction behind the "Check Payment Status" button of each bot.
PollInvoice(p) == IF p = SubscriberPoll THEN "inv1" ELSE "inv2"

\* if (status === 'PENDING' ...) in the selling bot,
\* if ((status === 'PENDING' || status === 'CONFIRMING') ...) in the main bot
PollsProcessor(p, status) ==
  IF p = SubscriberPoll
  THEN status = "PENDING"
  ELSE status = "PENDING" \/ status = "CONFIRMING"

\* latestPayment.actually_paid || transaction.amount
PaidOrAmount(paid, amount) == IF paid # 0 THEN paid ELSE amount

\* The transaction is read; a poll of the processor follows for some statuses.
PollRead(p) ==
  /\ poll[p].pc = "idle"
  /\ LET status == tx[PollInvoice(p)].payment_status
     IN IF PollsProcessor(p, status)
        THEN poll' = [poll EXCEPT ![p] = [IdlePoll EXCEPT !.pc = "fetch", !.seen = status]]
        ELSE poll' = [poll EXCEPT ![p] = [IdlePoll EXCEPT !.pc = "done"]]
  /\ UNCHANGED <<chat, exp, retry, peer, sub0, now, tx, sub, client, accessLog, grants, rpc, wh, ov, rec, confirmPaid>>

\* getInvoicePayments answers: no payment yet, or the latest payment.
PollFetch(p, found, reported, paid) ==
  /\ poll[p].pc = "fetch"
  /\ IF found /\ mapPaymentStatus(reported) # poll[p].seen
     THEN poll' = [poll EXCEPT ![p].pc = "write", ![p].seen = "",
                               ![p].newStatus = mapPaymentStatus(reported),
                               ![p].paid = paid]
     ELSE poll' = [poll EXCEPT ![p] = [IdlePoll EXCEPT !.pc = "done"]]
  /\ UNCHANGED <<chat, exp, retry, peer, sub0, now, tx, sub, client, accessLog, grants, rpc, wh, ov, rec, confirmPaid>>

\* update payment_transactions set payment_status = newStatus (the main bot
\* stamps confirmed_at too); a CONFIRMED status is followed by the call of
\* the procedure with 'finished'.
PollWrite(p) ==
  /\ poll[p].pc = "write"
  /\ LET inv == PollInvoice(p)
         newStatus == poll[p].newStatus
     IN /\ ~RowLocked(inv)
        /\ tx' = [tx EXCEPT
                    ![inv].payment_status = newStatus,
                    ![inv].confirmed_at =
                      IF p = PlatformPoll /\ newStatus = "CONFIRMED" THEN now ELSE @]
        /\ IF newStatus = "CONFIRMED"
           THEN /\ confirmPaid' = [confirmPaid EXCEPT ![inv] = poll[p].paid]
                /\ rpc' = Call(p, inv, "finished",
                               PaidOrAmount(poll[p].paid, TxRow(inv).amount))
                /\ poll' = [poll EXCEPT ![p] = [IdlePoll EXCEPT !.pc = "rpc"]]
           ELSE /\ poll' = [poll EXCEPT ![p] = [IdlePoll EXCEPT !.pc = "done"]]
                /\ UNCHANGED <<rpc, confirmPaid>>
  /\ UNCHANGED <<chat, exp, retry, peer, sub0, now, sub, client, accessLog, grants, wh, ov, rec>>

\* The procedure returned; the poll goes on to its reply.
PollReturn(p) ==
  /\ poll[p].pc = "rpc"
  /\ rpc[p].st = "returned"
  /\ poll' = [poll EXCEPT ![p].pc = "done"]
  /\ rpc' = [rpc EXCEPT ![p] = IdleRpc]
  /\ UNCHANGED <<chat, exp, retry, peer, sub0, now, tx, sub, client, accessLog, grants, wh, ov, rec, confirmPaid>>

\* -------------------------------------------------------------- withRetry

\* retries = 3
Retries == 3

\* What a failed call of the provider carries as error_code; 0 stands for an
\* error without a code (network error, timeout).
ErrorCodes == {0, 400, 403, 429, 500}

\* A loop that takes no error for a client error.
NoClientError(code) == FALSE

\* if (errorCode >= 400 && errorCode < 500 && errorCode !== 429) throw error
IsClientError(code) == code >= 400 /\ code < 500 /\ code # 429

\* delayMs = 1000
DelayMs == 1000

\* An answer of the operation: code 200 when it returns, else the error_code
\* it throws with; retry_after is parameters.retry_after, 0 when absent.
Answer(code, retryAfter) == [code |-> code, retry_after |-> retryAfter]

Answers ==
  {Answer(code, 0) : code \in {200} \cup ErrorCodes} \cup {Answer(429, 2)}

\* The scripts of MaxCalls answers.
Scripts == [1..MaxCalls -> Answers]

\* (retryAfter * 1000) + 100 with retryAfter = parameters.retry_after || 1
RateLimitWaitMs(retryAfter) == (IF retryAfter # 0 THEN retryAfter ELSE 1) * 1000 + 100

\* A backoff that waits the base delay every time.
BackoffFlat(i) == DelayMs

\* delayMs * Math.pow(2, i)
BackoffMs(i) == DelayMs * 2 ^ i

\* A loop whose continue after a 429 goes round without counting.
NextAttemptFreeOf429(i, code) == IF code = 429 THEN i ELSE i + 1

\* for (...; i++): the counter after a turn that failed with code, be it left
\* by continue (429) or by the end of the body.
NextAttempt(i, code) == i + 1

\* withRetry(operation) is called.
RetryStart(script) ==
  /\ retry.pc = "idle"
  /\ retry' = [IdleRetry EXCEPT !.pc = "loop", !.script = script]
  /\ UNCHANGED <<chat, exp, peer, sub0, now, tx, sub, client, accessLog, grants, rpc, wh, ov, rec, poll, confirmPaid>>

\* One turn of the loop: the operation is called; its result is returned,
\* or its error is thrown at once (a client error), or the loop waits and
\* goes to i + 1, by continue after a 429 and by the end of the body after
\* any other error; when i reaches retries the last error is thrown.
RetryTurn ==
  /\ retry.pc = "loop"
  /\ LET answer == retry.script[retry.calls + 1]
         called == [retry EXCEPT !.calls = @ + 1]
         waited == [called EXCEPT
                      !.slept = Append(@, IF answer.code = 429
                                          THEN RateLimitWaitMs(answer.retry_after)
                                          ELSE BackoffMs(retry.i)),
                      !.i = NextAttempt(@, answer.code)]
     IN retry' =
          IF answer.code = 200
          THEN [called EXCEPT !.pc = "returned"]
          ELSE IF IsClientError(answer.code)
          THEN [called EXCEPT !.pc = "thrown", !.error = answer.code]
          ELSE IF waited.i < Retries
          THEN waited
          ELSE [waited EXCEPT !.pc = "thrown", !.error = answer.code]
  /\ UNCHANGED <<chat, exp, peer, sub0, now, tx, sub, client, accessLog, grants, rpc, wh, ov, rec, poll, confirmPaid>>

\* The caller has the result; withRetry can be called again.
RetryEnd ==
  /\ retry.pc \in {"returned", "thrown"}
  /\ retry' = IdleRetry
  /\ UNCHANGED <<chat, exp, peer, sub0, now, tx, sub, client, accessLog, grants, rpc, wh, ov, rec, poll, confirmPaid>>

\* The error_code of a call made while the provider is failing.
OutageCodes == {0, 429, 500}

\* ---------------------------------------------------- removeUserFromChannel

\* until_date of a ban that ends at once.
UntilDateNow(seconds) == seconds

\* until_date: Math.floor(Date.now() / 1000) + 60
UntilDate(seconds) == seconds + 60

\* banChatMember at the provider: a ban until less than 30 seconds or more
\* than 366 days from now is a ban for ever.
ProviderBan(untilDate, seconds) ==
  IF untilDate - seconds < 30 \/ untilDate - seconds > 366 * 86400
  THEN "forever"
  ELSE "timed"

\* ------------------------------------------------------ runExpirationCheck

\* getExpiredSubscriptions of the subscription service: ACTIVE subscribers
\* whose period ended before now.
IsExpired(s, t) ==
  /\ s.subscription_status = "ACTIVE"
  /\ s.subscription_end_date # NULL
  /\ s.subscription_end_date < t

\* The subscribers row behind a name of the batch.
Row(s) == IF s = "sub" THEN sub ELSE peer

\* The expired ones among the subscribers, in the given order.
ExpiredIn(order) == SelectSeq(order, LAMBDA s : IsExpired(Row(s), now))

\* Where the turn of a subscriber of the batch starts.
StartOf(s) == IF s = "sub" THEN "expire" ELSE "peer_expire"

\* for (const sub of expired): the turn of the subscriber in hand is over and
\* the loop goes to the next one, or ends.
ExpNext(e) ==
  IF Len(e.queue) > 1
  THEN [e EXCEPT !.pc = StartOf(e.queue[2]), !.queue = Tail(@), !.i = 0]
  ELSE [e EXCEPT !.pc = "done", !.queue = <<>>, !.i = 0]

\* A loop whose catch gives the batch up.
AfterCatchHalting(e) == [e EXCEPT !.pc = "done", !.queue = <<>>, !.i = 0]

\* catch (error) { logger.error(...) } inside the loop: the error is logged
\* and the loop goes on.
AfterCatch(e) == ExpNext(e)

\* const expired = await getExpiredSubscriptions(); nothing to do when empty.
\* The rows come in an order of the database's choosing.
ExpSelect ==
  /\ exp.pc = "idle"
  /\ \E order \in {<<"sub", "peer">>, <<"peer", "sub">>} :
       LET queue == ExpiredIn(order)
       IN exp' = IF queue = <<>>
                 THEN [IdleExpiration EXCEPT !.pc = "done"]
                 ELSE [IdleExpiration EXCEPT
                         !.pc = StartOf(Head(queue)), !.queue = queue,
                         !.selected = {queue[j] : j \in 1..Len(queue)}]
  /\ UNCHANGED <<chat, retry, peer, sub0, now, tx, sub, client, accessLog, grants, rpc, wh, ov, rec, poll, confirmPaid>>

\* expireSubscription of the subscription service: the subscriber is set
\* EXPIRED.
ExpireSubscription(s) == [s EXCEPT !.subscription_status = "EXPIRED"]

\* revokeChannelAccess of the access control service, around
\* removeUserFromChannel: a REVOKE row is logged for a removal that succeeded.
RevokeLogged(ch, removed) == IF removed THEN [ch EXCEPT !.log = Append(@, "REVOKE")] ELSE ch

\* A turn that goes on to the revocation though expireSubscription raised.
ExpExpireRevokingAnyway(ok) ==
  /\ exp.pc = "expire"
  /\ sub' = IF ok THEN ExpireSubscription(sub) ELSE sub
  /\ exp' = [exp EXCEPT !.pc = "ban", !.revoked = @ \cup {"sub"}]
  /\ UNCHANGED <<chat, retry, peer, sub0, now, tx, client, accessLog, grants, rpc, wh, ov, rec, poll, confirmPaid>>

\* await expireSubscription(sub.id); when it raises, the catch of the loop
\* logs it and the revocation is skipped.
ExpExpire(ok) ==
  /\ exp.pc = "expire"
  /\ IF ok
     THEN /\ sub' = ExpireSubscription(sub)
          /\ exp' = [exp EXCEPT !.pc = "ban", !.revoked = @ \cup {"sub"}]
     ELSE /\ sub' = sub
          /\ exp' = AfterCatch([exp EXCEPT !.raised = @ \cup {"sub"}])
  /\ UNCHANGED <<chat, retry, peer, sub0, now, tx, client, accessLog, grants, rpc, wh, ov, rec, poll, confirmPaid>>

\* The catch of withRetry inside removeUserFromChannel after a call failed
\* with the given code: a client error is thrown at once, any other error
\* ends the attempt, and after the last attempt the error is thrown; the
\* operation starts again at the ban.
ExpAfterError(code) ==
  IF IsClientError(code) \/ exp.i + 1 >= Retries
  THEN [exp EXCEPT !.pc = "failed"]
  ELSE [exp EXCEPT !.pc = "ban", !.i = @ + 1]

\* bot.api.banChatMember(channelId, userId, { until_date, ... })
ExpBan(code) ==
  /\ exp.pc = "ban"
  /\ IF chat.up
     THEN /\ chat' = [chat EXCEPT
                        !.member = FALSE,
                        !.ban = ProviderBan(UntilDate(now * 86400), now * 86400)]
          /\ exp' = [exp EXCEPT !.pc = "unban"]
     ELSE /\ chat' = chat
          /\ exp' = ExpAfterError(code)
  /\ UNCHANGED <<retry, peer, sub0, now, tx, sub, client, accessLog, grants, rpc, wh, ov, rec, poll, confirmPaid>>

\* bot.api.unbanChatMember(channelId, userId)
ExpUnban(code) ==
  /\ exp.pc = "unban"
  /\ IF chat.up
     THEN /\ chat' = [chat EXCEPT !.ban = "none"]
          /\ exp' = [exp EXCEPT !.pc = "revoked"]
     ELSE /\ chat' = chat
          /\ exp' = ExpAfterError(code)
  /\ UNCHANGED <<retry, peer, sub0, now, tx, sub, client, accessLog, grants, rpc, wh, ov, rec, poll, confirmPaid>>

\* removeUserFromChannel returned true or false (its catch logs the error);
\* revokeChannelAccess returns and the loop goes on.
ExpLog ==
  /\ exp.pc \in {"revoked", "failed"}
  /\ chat' = RevokeLogged(chat, exp.pc = "revoked")
  /\ exp' = ExpNext(IF exp.pc = "failed"
                    THEN [exp EXCEPT !.unremoved = @ \cup {"sub"}]
                    ELSE exp)
  /\ UNCHANGED <<retry, peer, sub0, now, tx, sub, client, accessLog, grants, rpc, wh, ov, rec, poll, confirmPaid>>

\* The turn of the other subscriber: await expireSubscription(sub.id), which
\* sets the row EXPIRED or raises into the catch of the loop.
ExpPeerExpire(ok) ==
  /\ exp.pc = "peer_expire"
  /\ IF ok
     THEN /\ peer' = ExpireSubscription(peer)
          /\ exp' = [exp EXCEPT !.pc = "peer_revoke", !.revoked = @ \cup {"peer"}]
     ELSE /\ peer' = peer
          /\ exp' = AfterCatch([exp EXCEPT !.raised = @ \cup {"peer"}])
  /\ UNCHANGED <<chat, retry, sub0, now, tx, sub, client, accessLog, grants, rpc, wh, ov, rec,
                 poll, confirmPaid>>

\* ... and await revokeChannelAccess(...) for the other subscriber, from its
\* first call to its return: the removal succeeds when the provider answers
\* and fails, after the attempts of withRetry, when it does not.
ExpPeerRevoke ==
  /\ exp.pc = "peer_revoke"
  /\ peer' = [peer EXCEPT !.member = @ /\ ~chat.up]
  /\ chat' = RevokeLogged(chat, chat.up)
  /\ exp' = ExpNext(IF chat.up THEN exp ELSE [exp EXCEPT !.unremoved = @ \cup {"peer"}])
  /\ UNCHANGED <<retry, sub0, now, tx, sub, client, accessLog, grants, rpc, wh, ov, rec, poll,
                 confirmPaid>>

\* getExpiredSubscriptions raises: the catch around the job logs it and the
\* run is over.
ExpSelectFails ==
  /\ exp.pc = "idle"
  /\ exp' = [IdleExpiration EXCEPT !.pc = "done"]
  /\ UNCHANGED <<chat, retry, peer, sub0, now, tx, sub, client, accessLog, grants, rpc, wh,
                 ov, rec, poll, confirmPaid>>

\* The job is scheduled again after a run.
ExpRestart ==
  /\ exp.pc = "done"
  /\ exp' = IdleExpiration
  /\ UNCHANGED <<chat, retry, peer, sub0, now, tx, sub, client, accessLog, grants, rpc, wh, ov, rec, poll, confirmPaid>>

\* The ban's until_date has passed.
BanExpires ==
  /\ chat.ban = "timed"
  /\ chat' = [chat EXCEPT !.ban = "none"]
  /\ UNCHANGED <<exp, retry, peer, sub0, now, tx, sub, client, accessLog, grants, rpc, wh, ov, rec, poll, confirmPaid>>

\* ---------------------------------------------------------- chat provider

\* The provider starts failing every call (network, 5xx) ...
ProviderFails ==
  /\ chat.up
  /\ chat.outages < MaxOutages
  /\ chat' = [chat EXCEPT !.up = FALSE, !.outages = @ + 1]
  /\ UNCHANGED <<exp, retry, peer, sub0, now, tx, sub, client, accessLog, grants, rpc, wh, ov, rec, poll, confirmPaid>>

\* ... and answers again.
ProviderRecovers ==
  /\ ~chat.up
  /\ chat' = [chat EXCEPT !.up = TRUE]
  /\ UNCHANGED <<exp, retry, peer, sub0, now, tx, sub, client, accessLog, grants, rpc, wh, ov, rec, poll, confirmPaid>>

\* ------------------------------------------------------------------ clock

Tick ==
  /\ now < MaxNow
  /\ now' = now + 1
  /\ UNCHANGED <<chat, exp, retry, peer, sub0, tx, sub, client, accessLog, grants, rpc, wh, ov, rec, poll, confirmPaid>>

\* ---------------------------------------------------------- initial state

NoSubscription ==
  [subscription_status |-> "PENDING_PAYMENT", subscription_start_date |-> NULL,
   subscription_end_date |-> NULL, subscription_plan_id |-> "none"]

\* A subscriber who never paid, one whose period ended, and active ones whose
\* period ends at the first day of the clock, one day later and much later.
InitialSubscribers ==
  {NoSubscription,
   [subscription_status |-> "EXPIRED", subscription_start_date |-> 0,
    subscription_end_date |-> 0, subscription_plan_id |-> "planA"]}
  \cup
  {[subscription_status |-> "ACTIVE", subscription_start_date |-> 0,
    subscription_end_date |-> e, subscription_plan_id |-> "planA"] : e \in {1, 2, 6}}

InitialClients ==
  {[status |-> "PENDING", platform_subscription_plan_id |-> "none",
    platform_subscription_start |-> NULL, platform_subscription_end |-> NULL],
   [status |-> "ACTIVE", platform_subscription_plan_id |-> "planB",
    platform_subscription_start |-> 0, platform_subscription_end |-> 2]}

\* The rows and the processes but for the other subscriber.  The second
\* invoice of the subscriber was never paid and is EXPIRED, or it is open
\* like the first.
InitButPeer ==
  /\ now = 1
  /\ tx \in [Invoices -> {[payment_status |-> s, confirmed_at |-> NULL] :
                            s \in {"PENDING", "EXPIRED"}}]
  /\ \A i \in OpenInvoices : tx[i] = [payment_status |-> "PENDING", confirmed_at |-> NULL]
  /\ sub \in InitialSubscribers
  /\ client \in InitialClients
  /\ accessLog = <<>>
  /\ chat = [InitialChat EXCEPT !.member = (sub.subscription_status = "ACTIVE")]
  /\ exp = IdleExpiration
  /\ retry = IdleRetry
  /\ grants = 0
  /\ rpc = [c \in Callers |-> IdleRpc]
  /\ wh = [d \in Deliveries |-> IdleDelivery]
  /\ ov = [o \in Overriders |-> IdleOverride]
  /\ rec = IdleRecon
  /\ poll = [p \in Polls |-> IdlePoll]
  /\ confirmPaid = [i \in Invoices |-> NULL]
  /\ sub0 = sub

Init == InitButPeer /\ peer = NoPeer /\ tx["inv3"].payment_status = "EXPIRED"

\* ---------------------------------------------------------- specifications

FirstDelivery == <<"webhook", 1>>

\* A settled, fully paid notification for the subscriber's invoice.
SettledPaid == Accepted({"inv1"}, {"finished", "confirmed"}, {2})

\* The procedure behind the webhook handler, one request after the other:
\* any notification for any invoice, in any order.
NextEngine ==
  \/ \E n \in Accepted(InvoiceIds, ReportedStatuses, Paids) \cup Doubtful({"inv1"}) :
       WebhookReceive(FirstDelivery, n)
  \/ RpcBegin(FirstDelivery)
  \/ RpcCommit(FirstDelivery)
  \/ WebhookReturn(FirstDelivery)
  \/ WebhookPostPayment(FirstDelivery)
  \/ WebhookClose(FirstDelivery)
  \/ Tick

SpecEngine == Init /\ [][NextEngine]_vars

\* Any number of deliveries of a settled, fully paid notification for one
\* invoice, up to NumDeliveries of them being served at a time.
NextDup ==
  \/ \E d \in Deliveries, n \in SettledPaid : WebhookReceive(d, n)
  \/ \E d \in Deliveries : RpcBegin(d)
  \/ \E d \in Deliveries : RpcCommit(d)
  \/ \E d \in Deliveries : WebhookReturn(d)
  \/ \E d \in Deliveries : WebhookPostPayment(d)
  \/ \E d \in Deliveries : WebhookClose(d)
  \/ Tick

SpecDup == Init /\ [][NextDup]_vars

\* One webhook delivery and one reconciliation pass over the same settled,
\* fully paid invoice.
NextRace ==
  \/ \E n \in SettledPaid : WebhookReceive(FirstDelivery, n)
  \/ RpcBegin(FirstDelivery)
  \/ RpcCommit(FirstDelivery)
  \/ WebhookReturn(FirstDelivery)
  \/ WebhookPostPayment(FirstDelivery)
  \/ ReconSelect
  \/ \E reported \in {"finished", "confirmed"} : ReconFetch(TRUE, reported, 2)
  \/ ReconHeal
  \/ OverridePlan("recon")
  \/ OverrideWriteTx("recon")
  \/ OverrideWriteSub("recon")
  \/ OverrideLog("recon")
  \/ OverrideGrant("recon")
  \/ ReconHealed
  \/ ReconFinish
  \/ Tick

SpecRace == Init /\ [][NextRace]_vars

\* The reconciliation job and the admin's manual override, whatever the
\* processor answers.
NextSweep ==
  \/ ReconSelect
  \/ \E ok \in BOOLEAN, reported \in ReportedStatuses, paid \in Paids :
       ReconFetch(ok, reported, paid)
  \/ ReconHeal
  \/ \E inv \in InvoiceIds : ManualOverride(inv)
  \/ \E o \in Overriders : OverridePlan(o)
  \/ \E o \in Overriders : OverrideWriteTx(o)
  \/ \E o \in Overriders : OverrideWriteSub(o)
  \/ \E o \in Overriders : OverrideLog(o)
  \/ \E o \in Overriders : OverrideGrant(o)
  \/ ReconHealed
  \/ ReconFinish
  \/ Tick

SpecSweep == Init /\ [][NextSweep]_vars

\* The two status polls beside one webhook delivery of a notification that
\* reports the payment confirming or settled.
NextPolls ==
  \/ \E n \in Accepted(OpenInvoices, {"confirming", "finished"}, {1, 2}) :
       WebhookReceive(FirstDelivery, n)
  \/ \E c \in {FirstDelivery} \cup Polls : RpcBegin(c)
  \/ \E c \in {FirstDelivery} \cup Polls : RpcCommit(c)
  \/ WebhookReturn(FirstDelivery)
  \/ WebhookPostPayment(FirstDelivery)
  \/ \E p \in Polls : PollRead(p)
  \/ \E p \in Polls, found \in BOOLEAN, reported \in ReportedStatuses, paid \in Paids :
       PollFetch(p, found, reported, paid)
  \/ \E p \in Polls : PollWrite(p)
  \/ \E p \in Polls : PollReturn(p)
  \/ Tick

SpecPolls == Init /\ [][NextPolls]_vars

\* The reconciliation job alone, no webhook being delivered, while the
\* processor reports every invoice finished and paid in full.
NextHeal ==
  \/ ReconSelect
  \/ ReconFetch(TRUE, "finished", 2)
  \/ ReconHeal
  \/ OverridePlan("recon")
  \/ OverrideWriteTx("recon")
  \/ OverrideWriteSub("recon")
  \/ OverrideLog("recon")
  \/ OverrideGrant("recon")
  \/ ReconHealed
  \/ ReconFinish
  \/ Tick

SpecHeal == Init /\ [][NextHeal]_vars

\* Deliveries of a settled, fully paid notification and runs of the
\* reconciliation job, again and again, beside a chat provider that fails for
\* a while.
NextGrant ==
  \/ \E n \in SettledPaid : WebhookReceive(FirstDelivery, n)
  \/ RpcBegin(FirstDelivery)
  \/ RpcCommit(FirstDelivery)
  \/ WebhookReturn(FirstDelivery)
  \/ WebhookPostPayment(FirstDelivery)
  \/ WebhookClose(FirstDelivery)
  \/ ReconSelect
  \/ ReconFetch(TRUE, "finished", 2)
  \/ ReconHeal
  \/ OverridePlan("recon")
  \/ OverrideWriteTx("recon")
  \/ OverrideWriteSub("recon")
  \/ OverrideLog("recon")
  \/ OverrideGrant("recon")
  \/ ReconHealed
  \/ ReconFinish
  \/ ReconRestart
  \/ ProviderFails
  \/ ProviderRecovers
  \/ Tick

SpecGrant == Init /\ [][NextGrant]_vars

\* The processor keeps delivering, the job keeps running, every handler that
\* can take a step takes it, and the provider recovers from its outage.
FairGrant ==
  /\ SpecGrant
  /\ WF_vars(\E n \in SettledPaid : WebhookReceive(FirstDelivery, n))
  /\ WF_vars(RpcBegin(FirstDelivery))
  /\ WF_vars(RpcCommit(FirstDelivery))
  /\ WF_vars(WebhookReturn(FirstDelivery))
  /\ WF_vars(WebhookPostPayment(FirstDelivery))
  /\ WF_vars(WebhookClose(FirstDelivery))
  /\ WF_vars(ReconSelect)
  /\ WF_vars(ReconFetch(TRUE, "finished", 2))
  /\ WF_vars(ReconHeal)
  /\ WF_vars(OverridePlan("recon"))
  /\ WF_vars(OverrideWriteTx("recon"))
  /\ WF_vars(OverrideWriteSub("recon"))
  /\ WF_vars(OverrideLog("recon"))
  /\ WF_vars(OverrideGrant("recon"))
  /\ WF_vars(ReconHealed)
  /\ WF_vars(ReconFinish)
  /\ WF_vars(ReconRestart)
  /\ WF_vars(ProviderRecovers)

\* The expiration job, run again and again, beside a chat provider that
\* fails for a while.
NextExpire ==
  \/ ExpSelect
  \/ \E ok \in BOOLEAN : ExpExpire(ok)
  \/ \E code \in OutageCodes : ExpBan(code)
  \/ \E code \in OutageCodes : ExpUnban(code)
  \/ ExpLog
  \/ ExpRestart
  \/ BanExpires
  \/ ProviderFails
  \/ ProviderRecovers
  \/ Tick

SpecExpire == Init /\ [][NextExpire]_vars

\* The job keeps running, each of its steps is taken, the provider recovers
\* and time passes.
FairExpire ==
  /\ SpecExpire
  /\ WF_vars(ExpSelect)
  /\ WF_vars(ExpExpire(TRUE))
  /\ WF_vars(\E code \in OutageCodes : ExpBan(code))
  /\ WF_vars(\E code \in OutageCodes : ExpUnban(code))
  /\ WF_vars(ExpLog)
  /\ WF_vars(ExpRestart)
  /\ WF_vars(BanExpires)
  /\ WF_vars(ProviderRecovers)
  /\ WF_vars(Tick)

\* One subscriber or two are past their period: the expiration job beside a
\* chat provider that fails for a while, with a subscription service that can
\* fail too.
InitBatch == InitButPeer /\ peer = LapsedPeer /\ tx["inv3"].payment_status = "EXPIRED"

NextBatch ==
  \/ ExpSelect
  \/ ExpSelectFails
  \/ \E ok \in BOOLEAN : ExpExpire(ok)
  \/ \E code \in OutageCodes : ExpBan(code)
  \/ \E code \in OutageCodes : ExpUnban(code)
  \/ ExpLog
  \/ \E ok \in BOOLEAN : ExpPeerExpire(ok)
  \/ ExpPeerRevoke
  \/ ExpRestart
  \/ BanExpires
  \/ ProviderFails
  \/ ProviderRecovers
  \/ Tick

SpecBatch == InitBatch /\ [][NextBatch]_vars

\* The expiration job beside the delivery of a settled, fully paid
\* notification for the renewal invoice of the same subscriber.
NextRenewal ==
  \/ \E n \in SettledPaid : WebhookReceive(FirstDelivery, n)
  \/ RpcBegin(FirstDelivery)
  \/ RpcCommit(FirstDelivery)
  \/ WebhookReturn(FirstDelivery)
  \/ WebhookPostPayment(FirstDelivery)
  \/ WebhookClose(FirstDelivery)
  \/ ExpSelect
  \/ \E ok \in BOOLEAN : ExpExpire(ok)
  \/ \E code \in OutageCodes : ExpBan(code)
  \/ \E code \in OutageCodes : ExpUnban(code)
  \/ ExpLog
  \/ ExpRestart
  \/ Tick

SpecRenewal == Init /\ [][NextRenewal]_vars

\* Deliveries of a settled, fully paid notification for one invoice beside
\* a chat provider that fails for a while.
NextOutage ==
  \/ \E d \in Deliveries, n \in SettledPaid : WebhookReceive(d, n)
  \/ \E d \in Deliveries : RpcBegin(d)
  \/ \E d \in Deliveries : RpcCommit(d)
  \/ \E d \in Deliveries : WebhookReturn(d)
  \/ \E d \in Deliveries : WebhookPostPayment(d)
  \/ \E d \in Deliveries : WebhookClose(d)
  \/ ProviderFails
  \/ ProviderRecovers
  \/ Tick

SpecOutage == Init /\ [][NextOutage]_vars

\* Runs of withRetry, whatever the operation answers.
NextRetry ==
  \/ \E script \in Scripts : RetryStart(script)
  \/ RetryTurn
  \/ RetryEnd

InitRetry ==
  /\ Init
  /\ sub = NoSubscription
  /\ client.status = "PENDING"

SpecRetry == InitRetry /\ [][NextRetry]_vars

\* A call of the operation ends, and so does the wait after it.
FairRetry == SpecRetry /\ WF_vars(RetryTurn) /\ WF_vars(RetryEnd)

\* Requests with good and bad signatures and with timestamps around the
\* replay window, one after the other.
NextReplay ==
  \/ \E n \in Timed(OpenInvoices) : WebhookReceive(FirstDelivery, n)
  \/ RpcBegin(FirstDelivery)
  \/ RpcCommit(FirstDelivery)
  \/ WebhookReturn(FirstDelivery)
  \/ WebhookPostPayment(FirstDelivery)
  \/ WebhookClose(FirstDelivery)
  \/ Tick

SpecReplay == Init /\ [][NextReplay]_vars

\* The procedure behind the webhook handler when a statement of the
\* confirming branch can raise: settled and other notifications, fully paid
\* or not, one request after the other, so that a failed call is retried.
NextAtomic ==
  \/ \E n \in Accepted(OpenInvoices, {"confirming", "finished", "confirmed"}, {1, 2}) :
       WebhookReceive(FirstDelivery, n)
  \/ RpcBegin(FirstDelivery)
  \/ RpcCommit(FirstDelivery)
  \/ \E k \in 1..3 : RpcFail(FirstDelivery, k)
  \/ WebhookReturn(FirstDelivery)
  \/ WebhookPostPayment(FirstDelivery)
  \/ WebhookClose(FirstDelivery)
  \/ Tick

SpecAtomic == Init /\ [][NextAtomic]_vars

\* The request bodies of one settled, fully paid notification of inv1: in
\* both key orders, with and without whitespace.
Bodies ==
  {RawBody("inv1", "finished", 2, k, w) : k \in KeyOrders, w \in BOOLEAN}

\* What a sender can put in x-nowpayments-sig: the digest of any body under
\* the secret, the digest of one under no secret, the empty string, 'abc',
\* 'a'.repeat(200), or no header.
Signatures ==
  {Hmac(b, Secret) : b \in Bodies}
  \cup {Hmac(RawBody("inv1", "finished", 2, "sorted", FALSE), NoSecret)}
  \cup {EmptySignature, Malformed(3), Malformed(200), NoSignature}

SecondDelivery == <<"webhook", 2>>

\* Requests of any bytes under any signature, two of them in flight, met by
\* a server with or without a configured secret.
NextSignature ==
  \/ \E d \in {FirstDelivery, SecondDelivery}, raw \in Bodies, sig \in Signatures,
        secret \in {Secret, NoSecret} :
       WebhookReceive(d, SignedRequest(raw, sig, secret))
  \/ \E d \in Deliveries : RpcBegin(d)
  \/ \E d \in Deliveries : RpcCommit(d)
  \/ \E d \in Deliveries : WebhookReturn(d)
  \/ \E d \in Deliveries : WebhookPostPayment(d)
  \/ \E d \in Deliveries : WebhookClose(d)

SpecSignature == Init /\ [][NextSignature]_vars

\* What the processor reports of a payment that is under way or has ended
\* without being paid.
Unsettled == {"confirming", "expired", "failed"}

\* The reconciliation job, run again and again, no webhook being delivered,
\* while the processor reports every invoice confirming, expired or failed.
NextDisagree ==
  \/ ReconSelect
  \/ \E reported \in Unsettled : ReconFetch(TRUE, reported, 0)
  \/ ReconFinish
  \/ ReconRestart
  \/ Tick

SpecDisagree == Init /\ [][NextDisagree]_vars

\* The job is run by its schedule and each of its steps ends.
FairDisagree ==
  /\ SpecDisagree
  /\ WF_vars(ReconSelect)
  /\ WF_vars(\E reported \in Unsettled : ReconFetch(TRUE, reported, 0))
  /\ WF_vars(ReconFinish)
  /\ WF_vars(ReconRestart)

\* Invite links: those the grants of confirmed payments create and those of
\* grants that name no limit, and the users who open them.
NextInvite ==
  \/ \E n \in SettledPaid : WebhookReceive(FirstDelivery, n)
  \/ RpcBegin(FirstDelivery)
  \/ RpcCommit(FirstDelivery)
  \/ WebhookReturn(FirstDelivery)
  \/ WebhookPostPayment(FirstDelivery)
  \/ WebhookClose(FirstDelivery)
  \/ \E option \in {NoOption, 0} : GrantWithout(option)
  \/ \E l \in 1..(MaxLinks + 1) : UserJoins(l)
  \/ Tick

SpecInvite == Init /\ [][NextInvite]_vars

\* Every outcome of a request: notifications of a known and of an unknown
\* invoice, settled or not, fully paid or not, with bad signatures and stale
\* timestamps among them, a procedure whose statements can raise and a
\* database that can be out of reach.
NextRespond ==
  \/ \E n \in Accepted({"inv1", UnknownInvoice}, {"waiting", "finished"}, {1, 2})
               \cup Doubtful({"inv1"}) :
       WebhookReceive(FirstDelivery, n)
  \/ RpcBegin(FirstDelivery)
  \/ RpcCommit(FirstDelivery)
  \/ \E k \in 1..3 : RpcFail(FirstDelivery, k)
  \/ RpcUnreachable(FirstDelivery)
  \/ WebhookReturn(FirstDelivery)
  \/ WebhookPostPayment(FirstDelivery)
  \/ WebhookClose(FirstDelivery)
  \/ Tick

SpecRespond == Init /\ [][NextRespond]_vars

\* The subscriber has two open invoices, for two plans, and the processor
\* reports both settled and paid in full: two requests of the webhook are
\* served at the same time, one for each invoice.
InitRenewals == InitButPeer /\ peer = NoPeer /\ tx["inv3"].payment_status = "PENDING"

DeliveryInvoice(d) == IF d = FirstDelivery THEN "inv1" ELSE "inv3"

NextRenewals ==
  \/ \E d \in {FirstDelivery, SecondDelivery} :
       \E n \in Accepted({DeliveryInvoice(d)}, {"finished"}, {2}) : WebhookReceive(d, n)
  \/ \E d \in {FirstDelivery, SecondDelivery} : RpcBegin(d)
  \/ \E d \in {FirstDelivery, SecondDelivery} : RpcCommit(d)
  \/ \E d \in {FirstDelivery, SecondDelivery} : WebhookReturn(d)
  \/ \E d \in {FirstDelivery, SecondDelivery} : WebhookPostPayment(d)
  \/ \E d \in {FirstDelivery, SecondDelivery} : WebhookClose(d)
  \/ Tick

SpecRenewals == InitRenewals /\ [][NextRenewals]_vars

\* The reconciliation job over the two open invoices of the subscriber,
\* beside a processor that answers or fails and a chat provider that fails
\* for a while.
NextReconcile ==
  \/ ReconSelect
  \/ \E ok \in BOOLEAN, reported \in {"waiting", "finished"} : ReconFetch(ok, reported, 2)
  \/ ReconHeal
  \/ OverridePlan("recon")
  \/ OverrideWriteTx("recon")
  \/ OverrideWriteSub("recon")
  \/ OverrideLog("recon")
  \/ OverrideGrant("recon")
  \/ ReconHealed
  \/ ReconFinish
  \/ ReconRestart
  \/ ProviderFails
  \/ ProviderRecovers
  \/ Tick

SpecReconcile == InitRenewals /\ [][NextReconcile]_vars

\* Everything at once.
Next ==
  \/ \E d \in Deliveries,
        n \in Accepted(InvoiceIds, ReportedStatuses, Paids) \cup Doubtful({"inv1"}) :
       WebhookReceive(d, n)
  \/ \E c \in Callers : RpcBegin(c)
  \/ \E c \in Callers : RpcCommit(c)
  \/ \E c \in Callers, k \in 1..3 : RpcFail(c, k)
  \/ \E d \in Deliveries : RpcUnreachable(d)
  \/ \E d \in Deliveries : WebhookReturn(d)
  \/ \E d \in Deliveries : WebhookPostPayment(d)
  \/ \E d \in Deliveries : WebhookClose(d)
  \/ \E option \in {NoOption, 0} : GrantWithout(option)
  \/ \E l \in 1..(MaxLinks + 1) : UserJoins(l)
  \/ ExpSelectFails
  \/ \E ok \in BOOLEAN : ExpPeerExpire(ok)
  \/ ExpPeerRevoke
  \/ ReconSelect
  \/ \E ok \in BOOLEAN, reported \in ReportedStatuses, paid \in Paids :
       ReconFetch(ok, reported, paid)
  \/ ReconHeal
  \/ \E inv \in InvoiceIds : ManualOverride(inv)
  \/ \E o \in Overriders : OverridePlan(o)
  \/ \E o \in Overriders : OverrideWriteTx(o)
  \/ \E o \in Overriders : OverrideWriteSub(o)
  \/ \E o \in Overriders : OverrideLog(o)
  \/ \E o \in Overriders : OverrideGrant(o)
  \/ ReconHealed
  \/ ReconFinish
  \/ \E p \in Polls : PollRead(p)
  \/ \E p \in Polls, found \in BOOLEAN, reported \in ReportedStatuses, paid \in Paids :
       PollFetch(p, found, reported, paid)
  \/ \E p \in Polls : PollWrite(p)
  \/ \E p \in Polls : PollReturn(p)
  \/ Tick

Spec == Init /\ [][Next]_vars

\* ------------------------------------------------------------------ claims

\* One application of the extend-or-reset rule to the subscription s at time
\* t for a plan of the given number of days.
OneExtension(s, t, days) ==
  IF s.subscription_status = "ACTIVE" /\ s.subscription_end_date > t
  THEN s.subscription_end_date + days
  ELSE t + days

StatusChanged(i) == tx'[i].payment_status # tx[i].payment_status

\* C1: however many deliveries of a settled, fully paid notification for one
\* invoice are served, one after the other or at once, the subscriber's
\* period is extended exactly once: until the confirmation the subscription
\* is as it was, and from then on it ends one plan duration after the old end
\* (or after the time of the confirmation), with one GRANT row logged.
C1_DuplicatesExtendOnce ==
  IF tx["inv1"].payment_status = "CONFIRMED"
  THEN /\ sub.subscription_end_date =
            OneExtension(sub0, tx["inv1"].confirmed_at, 3)
       /\ sub.subscription_status = "ACTIVE"
       /\ accessLog = <<"SYSTEM">>
  ELSE /\ sub = sub0
       /\ accessLog = <<>>

\* A duplicate reached the procedure after the payment was confirmed, while
\* another delivery was turned away by the handler's pre-check.
C1_Witness ==
  /\ tx["inv1"].payment_status = "CONFIRMED"
  /\ \E d \in Deliveries : rpc[d].st = "returned" /\ rpc[d].action = "none"
  /\ \E d \in Deliveries : wh[d].pc = "done" /\ wh[d].code = 200

\* C2: when one webhook delivery and one reconciliation pass over the same
\* settled, fully paid invoice have both finished, the transaction is
\* CONFIRMED and the subscription ends where one application of the
\* extend-or-reset rule to its first value puts it.
C2_RaceCreditsOnce ==
  (wh[FirstDelivery].pc = "done" /\ rec.pc = "done")
    => /\ tx["inv1"].payment_status = "CONFIRMED"
       /\ \E t \in 1..now : sub.subscription_end_date = OneExtension(sub0, t, 3)

\* C3: a call of the procedure with a settled status for an invoice that is
\* already CONFIRMED returns success with action none and changes neither the
\* transactions, the subscriber, the client nor the access log.
C3_SecondApplyIsNoOp ==
  [][\A c \in Callers :
       (/\ rpc[c].st = "called"
        /\ rpc[c].inv \in Invoices
        /\ IsSettled(rpc[c].reported)
        /\ tx[rpc[c].inv].payment_status = "CONFIRMED"
        /\ rpc'[c] # rpc[c])
       => /\ rpc'[c].st = "returned"
          /\ rpc'[c].status = "success"
          /\ rpc'[c].action = "none"
          /\ tx' = tx
          /\ sub' = sub
          /\ client' = client
          /\ accessLog' = accessLog]_vars

\* The second call has returned: one transaction is CONFIRMED, one GRANT row
\* is logged, and the call answered with action none.
C3_Witness ==
  /\ \E c \in Callers :
       rpc[c].st = "returned" /\ rpc[c].status = "success" /\ rpc[c].action = "none"
  /\ Cardinality({i \in Invoices : tx[i].payment_status = "CONFIRMED"}) = 1
  /\ Len(accessLog) = 1

\* C4: no transaction is CONFIRMED on account of a report whose actually_paid
\* is below the amount due.
C4_UnderpaidNeverConfirmed ==
  \A i \in Invoices :
    (tx[i].payment_status = "CONFIRMED" /\ confirmPaid[i] # NULL)
      => confirmPaid[i] >= TxRow(i).amount

\* C5: once CONFIRMED, a transaction stays CONFIRMED.
C5_ConfirmedIsTerminal ==
  [][\A i \in Invoices :
       tx[i].payment_status = "CONFIRMED" => tx'[i].payment_status = "CONFIRMED"]_vars

\* C6: a FAILED or EXPIRED transaction never becomes CONFIRMED.
C6_ConfirmedOnlyFromPendingOrConfirming ==
  [][\A i \in Invoices :
       tx[i].payment_status \in {"FAILED", "EXPIRED"}
         => tx'[i].payment_status # "CONFIRMED"]_vars

\* C7: the procedure never moves a transaction from CONFIRMING back to
\* PENDING, nor from FAILED or EXPIRED to PENDING or CONFIRMING.
C7_StatusMovesForward ==
  [][\A i \in Invoices :
       /\ tx[i].payment_status = "CONFIRMING" => tx'[i].payment_status # "PENDING"
       /\ tx[i].payment_status \in {"FAILED", "EXPIRED"}
            => tx'[i].payment_status \notin {"PENDING", "CONFIRMING"}]_vars

\* C8: no step of a confirmation (by the procedure, the reconciliation job or
\* the manual override) lowers the subscriber's period end.
C8_PeriodEndNeverDecreases ==
  [][sub'.subscription_end_date >= sub.subscription_end_date]_vars

\* C9: the commit of a confirmed SUBSCRIBER payment leaves the subscriber
\* ACTIVE on the transaction's plan, with the period ending plan.duration_days
\* after the old end when the subscriber was ACTIVE with an end after now, and
\* plan.duration_days after now otherwise; now is the confirmed_at it stamps.
C9_SubscriberExtendOrReset ==
  [][\A c \in Callers :
       (/\ rpc[c].st = "locked"
        /\ rpc'[c].st = "returned"
        /\ TxRow(rpc[c].inv).payment_type = "SUBSCRIBER_SUBSCRIPTION")
       => /\ tx'[rpc[c].inv].payment_status = "CONFIRMED"
          /\ sub'.subscription_status = "ACTIVE"
          /\ sub'.subscription_plan_id = TxRow(rpc[c].inv).plan_id
          /\ sub'.subscription_end_date =
               OneExtension(sub, tx'[rpc[c].inv].confirmed_at, 3)
          /\ rpc'[c].action = "activated_subscriber"]_vars

\* A renewal confirmed on day 1 of a period that ended on day 2 ends on day 5,
\* and a first payment confirmed on day 2 ends on day 5 as well.
C9_Witness ==
  /\ tx["inv1"].payment_status = "CONFIRMED"
  /\ \/ /\ sub0.subscription_status = "ACTIVE"
        /\ sub0.subscription_end_date = 2
        /\ tx["inv1"].confirmed_at = 1
        /\ sub.subscription_end_date = 5
     \/ /\ sub0 = NoSubscription
        /\ tx["inv1"].confirmed_at = 2
        /\ sub.subscription_end_date = 5

\* C10: every change of a transaction's payment_status happens in a step of
\* the procedure process_payment_webhook.
C10_OnlyEngineWritesStatus ==
  [][(\E i \in Invoices : StatusChanged(i))
       => \E c \in Callers : rpc[c].st \in {"called", "locked"} /\ rpc'[c].st = "returned"]_vars

\* C11: a call of the procedure is all or nothing.  When a statement of the
\* confirming branch raises after the row was locked, whichever statement it
\* is, the call returns an error and the transactions (status and
\* confirmed_at), the subscriber, the client and the access log are as they
\* were before the call; and no state shows a CONFIRMED subscriber payment
\* beside a subscription that was not extended or a GRANT row that is missing.
C11_ApplyIsAllOrNothing ==
  [][/\ \A c \in Callers :
          (rpc[c].st = "locked" /\ rpc'[c].st = "returned" /\ rpc'[c].status = "error")
          => /\ tx' = tx
             /\ sub' = sub
             /\ client' = client
             /\ accessLog' = accessLog
     /\ tx'["inv1"].payment_status = "CONFIRMED"
          => /\ sub'.subscription_status = "ACTIVE"
             /\ sub'.subscription_end_date =
                  OneExtension(sub0, tx'["inv1"].confirmed_at, 3)
             /\ accessLog' = <<"SYSTEM">>
     /\ tx'["inv1"].payment_status # "CONFIRMED"
          => sub' = sub0 /\ accessLog' = <<>>]_vars

\* The insert into the access log raised, after the updates of the
\* transaction and of the subscriber: the call answered with an error and the
\* invoice is not CONFIRMED.
C11_Witness ==
  /\ rpc[FirstDelivery].st = "returned"
  /\ rpc[FirstDelivery].status = "error"
  /\ rpc[FirstDelivery].action = "insert_log"
  /\ tx["inv1"].payment_status # "CONFIRMED"
  /\ sub = sub0

\* C12: when no webhook is delivered and the processor reports the
\* subscriber's invoice finished with actually_paid not below the amount due,
\* a finished run of the reconciliation job that started within a day of the
\* invoice's creation leaves the transaction CONFIRMED and the subscriber
\* ACTIVE.
C12_SweepSelfHeals ==
  (rec.pc = "done" /\ TxRow("inv1").created_at >= rec.yesterday)
    => /\ tx["inv1"].payment_status = "CONFIRMED"
       /\ sub.subscription_status = "ACTIVE"

\* The job has finished having healed one transaction, which was PENDING with
\* no delivery ever served, for a subscriber who had never paid.
C12_Witness ==
  /\ rec.pc = "done"
  /\ rec.healed = 1
  /\ sub0 = NoSubscription
  /\ tx["inv1"].payment_status = "CONFIRMED"
  /\ sub.subscription_status = "ACTIVE"
  /\ \A d \in Deliveries : wh[d] = IdleDelivery

\* C13: what the reconciliation job and the manual override write for a
\* transaction is what the procedure would have written from the same state
\* for the fetched report: the transaction is CONFIRMED only when the report's
\* actually_paid covers the amount due, and the subscriber is left ACTIVE on
\* the transaction's plan with the period end the procedure computes.
C13_SweepAndOverrideActAsEngine ==
  [][\A o \in Overriders :
       /\ (ov[o].pc = "writeTx" /\ ov'[o].pc = "writeSub" /\ ov[o].paid # NULL)
            => ~PartialPayment(ov[o].paid, TxRow(ov[o].inv).amount)
       /\ (ov[o].pc = "writeSub" /\ ov'[o].pc = "log")
            => /\ sub'.subscription_status = "ACTIVE"
               /\ sub'.subscription_plan_id = TxRow(ov[o].inv).plan_id
               /\ sub'.subscription_end_date =
                    NewEndDate(sub.subscription_status, sub.subscription_end_date,
                               ov[o].t, DurationDays(TxRow(ov[o].inv).plan_id))]_vars

\* grantChannelAccess has succeeded for the subscriber.
GrantSucceeded == \E j \in 1..Len(chat.log) : chat.log[j] = "GRANT"

\* C14: once the subscriber's payment is CONFIRMED and the subscription
\* ACTIVE, a grant for the subscriber eventually succeeds, the chat provider
\* failing only for a while and deliveries and reconciliation runs going on.
C14_ConfirmedLeadsToGrant ==
  (tx["inv1"].payment_status = "CONFIRMED" /\ sub.subscription_status = "ACTIVE")
    ~> GrantSucceeded

\* C15: once the expiration job has set the subscriber EXPIRED, the
\* subscriber is eventually out of the channel, the chat provider failing
\* only for a while and the job running again and again.
C15_ExpiredLeadsToRemoval ==
  (sub.subscription_status = "EXPIRED") ~> ~chat.member

\* C16: a grant that fails after the confirmation changes neither the
\* transactions nor the subscriber, and while the delivery whose grant failed
\* is being answered the transaction is CONFIRMED and the subscriber ACTIVE
\* with the period end the confirmation gave it.
C16_GrantFailureKeepsPayment ==
  [][\A d \in Deliveries :
       /\ (wh[d].pc = "post" /\ wh'[d].grant = "failed") => (tx' = tx /\ sub' = sub)
       /\ wh'[d].grant = "failed"
            => /\ tx'["inv1"].payment_status = "CONFIRMED"
               /\ sub'.subscription_status = "ACTIVE"
               /\ sub'.subscription_end_date =
                    OneExtension(sub0, tx'["inv1"].confirmed_at, 3)]_vars

\* The grant failed while the provider was down and the handler answered 500;
\* the payment of a subscriber who renewed is CONFIRMED and the period
\* extended from day 2 to day 5.
C16_Witness ==
  /\ \E d \in Deliveries : wh[d].grant = "failed" /\ wh[d].code = 500
  /\ ~chat.up
  /\ tx["inv1"].payment_status = "CONFIRMED"
  /\ sub0.subscription_end_date = 2
  /\ sub.subscription_end_date = 5

\* The operation answers 429 n times and then succeeds.
RateLimitedThenOk(script, n) ==
  /\ n + 1 <= Len(script)
  /\ \A j \in 1..n : script[j].code = 429
  /\ script[n + 1].code = 200

\* C17: a run of withRetry whose operation answers 429 n times and then
\* succeeds, for whatever n >= 0, ends by returning the result, not by
\* throwing.
C17_RateLimitKeepsBudget ==
  (/\ retry.pc \in {"returned", "thrown"}
   /\ \E n \in 0..MaxCalls : RateLimitedThenOk(retry.script, n))
    => retry.pc = "returned"

\* C18: a revocation never leaves a ban for ever.  Every ban that
\* removeUserFromChannel issues is a timed one; the unban is reached only
\* from a ban that succeeded in the same attempt of withRetry; and whether the
\* revocation succeeds, is retried or gives up part-way, the subscriber ends
\* up not banned, so that a later grant can let the subscriber in again.
C18_RevokeLeavesNoPermanentBan ==
  /\ [][/\ chat'.ban # "forever"
        /\ (exp.pc # "unban" /\ exp'.pc = "unban")
             => /\ exp.pc = "ban"
                /\ exp'.i = exp.i
                /\ chat'.ban = "timed"
                /\ ~chat'.member]_vars
  /\ <>[](chat.ban = "none")

\* The revocation gave up part-way: the ban succeeded, the provider then
\* failed the unban and every further attempt, and the timed ban stands.
C18_Witness ==
  /\ exp.pc = "failed"
  /\ chat.ban = "timed"
  /\ ~chat.member
  /\ ~chat.up

C20_ValidationBeforeMutation ==
  [][\A d \in Deliveries :
       (wh[d].pc = "idle" /\ wh'[d].pc # "idle")
       => /\ ~wh'[d].sigValid => (wh'[d].pc = "done" /\ wh'[d].code = 403)
          /\ (wh'[d].sigValid /\ wh'[d].hasTimestamp /\ wh'[d].ageMs > 5 * 60 * 1000)
               => (wh'[d].pc = "done" /\ wh'[d].code = 400)
          /\ wh'[d].code \in {400, 403}
               => /\ rpc' = rpc
                  /\ tx' = tx
                  /\ sub' = sub
                  /\ client' = client
                  /\ accessLog' = accessLog
                  /\ chat' = chat
                  /\ grants' = grants]_vars

\* A request with a bad signature and a stale timestamp was answered 403
\* after an earlier one had confirmed the payment: nothing was called.
C20_Witness ==
  /\ wh[FirstDelivery].pc = "done"
  /\ wh[FirstDelivery].code = 403
  /\ ~wh[FirstDelivery].sigValid
  /\ wh[FirstDelivery].ageMs = 360000
  /\ rpc[FirstDelivery] = IdleRpc
  /\ tx["inv1"].payment_status = "CONFIRMED"
  /\ grants = 1

\* C21: the handler authenticates the bytes it received: of two requests
\* whose bodies differ in a byte, be it only in whitespace or in the order of
\* the keys, a signature accepted for one is not accepted for the other.
C21_SignatureBindsRawBytes ==
  \A d1 \in Deliveries, d2 \in Deliveries :
    (/\ wh[d1].pc # "idle" /\ wh[d2].pc # "idle"
     /\ wh[d1].secret = Secret /\ wh[d2].secret = Secret
     /\ wh[d1].raw # NoBody /\ wh[d2].raw # NoBody
     /\ wh[d1].raw # wh[d2].raw
     /\ wh[d1].sig = wh[d2].sig)
    => ~(wh[d1].sigValid /\ wh[d2].sigValid)

\* C22: the signature check passes only for the HMAC-SHA512 digest of the
\* body it is given under the secret; an empty, a too short and a too long
\* signature are rejected with 403; without a signature header or without a
\* configured secret the request is answered at once and the procedure is
\* never called.
C22_SignatureCheckFailsClosed ==
  \A d \in Deliveries :
    (wh[d].pc # "idle" /\ wh[d].raw # NoBody) =>
      /\ (wh[d].sigValid =>
            SignatureOrEmpty(wh[d].sig) = Hmac(Stringify(Parse(wh[d].raw)), wh[d].secret))
      /\ (wh[d].secret = Secret /\ wh[d].sig.len \in {0, 3, 200} =>
            ~wh[d].sigValid /\ wh[d].pc = "done" /\ wh[d].code = 403)
      /\ (wh[d].sig = NoSignature \/ wh[d].secret = NoSecret =>
            /\ wh[d].pc = "done"
            /\ wh[d].code = IF wh[d].secret = NoSecret THEN 500 ELSE 403
            /\ rpc[d].st = "idle")

\* A request signed under the empty secret has met a server without a
\* secret, and another came without a signature header.
C22_Witness ==
  \E d1 \in Deliveries, d2 \in Deliveries :
    /\ wh[d1].pc = "done" /\ wh[d1].code = 500
    /\ wh[d1].secret = NoSecret
    /\ wh[d1].sig = Hmac(Stringify(Parse(wh[d1].raw)), NoSecret)
    /\ wh[d2].pc = "done" /\ wh[d2].code = 403
    /\ wh[d2].raw # NoBody /\ wh[d2].sig = NoSignature

\* The procedure came back from its EXCEPTION clause: a statement of the
\* confirming branch raised and the transition was rolled back.
AbortedMidWay(d) ==
  /\ rpc[d].st = "returned" /\ ~rpc[d].error
  /\ rpc[d].status = "error"
  /\ \E type \in {"SUBSCRIBER_SUBSCRIPTION", "PLATFORM_SUBSCRIPTION"} :
       \E k \in 1..Len(Statements(type)) : rpc[d].action = Statements(type)[k]

\* C23: the response code tells the outcome: 403 for a bad signature, 400
\* for a stale timestamp, 500 exactly when processing failed internally (the
\* call failed or the transition was aborted mid-way), and 200 for every
\* handled outcome: confirmed, updated, underpaid, unknown invoice, already
\* processed.
C23_ResponseClassifiesOutcome ==
  [][\A d \in Deliveries :
       (wh[d].pc # "done" /\ wh'[d].pc = "done") =>
         LET r == wh'[d]
             failed == wh[d].pc = "rpc" /\ (rpc[d].error \/ AbortedMidWay(d))
         IN /\ r.code \in {200, 400, 403, 500}
            /\ r.code = 403 <=> ~r.sigValid
            /\ r.code = 400 <=> r.sigValid /\ ReplayRejected(r.hasTimestamp, r.ageMs)
            /\ r.code = 500 <=> failed
            /\ (wh[d].pc = "idle" /\ r.sigValid /\ ~ReplayRejected(r.hasTimestamp, r.ageMs)
                  => r.code = 200)
            /\ (wh[d].pc = "post" => r.code = 200)
            /\ (wh[d].pc = "rpc" /\ ~failed => r.code = 200)]_vars

\* C24: a call with a settled status (finished or confirmed) and less paid
\* than the amount due, for a transaction not yet CONFIRMED, sets the
\* transaction FAILED, returns an error result carrying the expected and the
\* received amount, and leaves the subscription and the access log as they
\* were.
C24_UnderpaidSettledFails ==
  [][\A c \in Callers :
       (/\ rpc[c].st = "called"
        /\ rpc'[c].st # "called"
        /\ rpc[c].inv \in Invoices
        /\ tx[rpc[c].inv].payment_status # "CONFIRMED"
        /\ rpc[c].reported \in {"finished", "confirmed"}
        /\ rpc[c].paid < TxRow(rpc[c].inv).amount)
       => /\ tx'[rpc[c].inv].payment_status = "FAILED"
          /\ rpc'[c].st = "returned"
          /\ rpc'[c].status = "error"
          /\ rpc'[c].expected = TxRow(rpc[c].inv).amount
          /\ rpc'[c].received = rpc[c].paid
          /\ sub' = sub
          /\ client' = client
          /\ accessLog' = accessLog]_vars

\* An underpaid settled notification was answered with the two amounts.
C24_Witness ==
  \E c \in Callers :
    /\ rpc[c].st = "returned" /\ rpc[c].status = "error"
    /\ rpc[c].expected = 2 /\ rpc[c].received = 1
    /\ tx[rpc[c].inv].payment_status = "FAILED"

\* C25: a call for an invoice the ledger does not know returns an error and
\* changes no transaction, subscription, client or access log; the handler
\* that gets this result starts no grant.
C25_UnknownInvoiceIsRejected ==
  [][\A d \in Deliveries :
       /\ (rpc[d].st = "called" /\ rpc'[d].st # "called" /\ rpc[d].inv \notin Invoices)
            => /\ rpc'[d].st = "returned"
               /\ rpc'[d].status = "error"
               /\ UNCHANGED <<tx, sub, client, accessLog, confirmPaid, grants, chat>>
       /\ (wh[d].pc = "rpc" /\ wh'[d].pc # "rpc" /\ rpc[d].inv \notin Invoices)
            => /\ wh'[d].pc = "done"
               /\ UNCHANGED <<tx, sub, client, accessLog, confirmPaid, grants, chat>>]_vars

\* The procedure has turned down a notification of an unknown invoice and
\* the handler is about to answer.
C25_Witness ==
  \E d \in Deliveries :
    /\ wh[d].pc = "rpc"
    /\ rpc[d].st = "returned" /\ rpc[d].inv = UnknownInvoice
    /\ rpc[d].status = "error"

\* C26: every invite link a grant creates is single-use: it is made with
\* member_limit 1 whenever the grant names no other limit, and no more than
\* one user ever joins through it.
C26_InviteLinksAreSingleUse ==
  \A l \in 1..Len(chat.links) :
    /\ chat.links[l].member_limit = 1
    /\ chat.links[l].joined <= 1

\* A link of a payment's grant and a link of a grant without a limit have
\* each let one user in.
C26_Witness ==
  /\ wh[FirstDelivery].grant = "ok"
  /\ Len(chat.links) >= 2
  /\ \A l \in 1..Len(chat.links) : chat.links[l].joined = 1

\* C27: partially_paid is a settled status: a call with partially_paid and
\* less paid than the amount due, for a transaction not yet CONFIRMED, takes
\* the underpayment check and leaves the transaction FAILED, neither PENDING
\* nor CONFIRMED, and the subscription as it was.
C27_PartiallyPaidIsSettled ==
  [][\A c \in Callers :
       (/\ rpc[c].st = "called"
        /\ rpc'[c].st # "called"
        /\ rpc[c].inv \in Invoices
        /\ tx[rpc[c].inv].payment_status # "CONFIRMED"
        /\ rpc[c].reported = "partially_paid"
        /\ rpc[c].paid < TxRow(rpc[c].inv).amount)
       => /\ tx'[rpc[c].inv].payment_status = "FAILED"
          /\ sub' = sub
          /\ client' = client
          /\ accessLog' = accessLog]_vars

\* The status the Engine is to store for a report outside the settled
\* class, as the claim lists it.
StoredForUnsettled(reported) ==
  CASE reported = "waiting" -> "PENDING"
    [] reported = "confirming" -> "CONFIRMING"
    [] reported = "sending" -> "CONFIRMING"
    [] reported = "expired" -> "EXPIRED"
    [] reported = "failed" -> "FAILED"
    [] OTHER -> "PENDING"

\* C28: a call with a status outside the settled class (finished, confirmed,
\* partially_paid), for a transaction not yet CONFIRMED, stores PENDING for
\* waiting, CONFIRMING for confirming and for sending, EXPIRED for expired,
\* FAILED for failed and PENDING for any other, returns status updated, and
\* leaves the subscription and the access log as they were.
C28_UnsettledStatusIsStored ==
  [][\A c \in Callers :
       (/\ rpc[c].st = "called"
        /\ rpc'[c].st # "called"
        /\ rpc[c].inv \in Invoices
        /\ tx[rpc[c].inv].payment_status # "CONFIRMED"
        /\ rpc[c].reported \notin {"finished", "confirmed", "partially_paid"})
       => /\ tx'[rpc[c].inv].payment_status = StoredForUnsettled(rpc[c].reported)
          /\ rpc'[c].st = "returned"
          /\ rpc'[c].status = "updated"
          /\ sub' = sub
          /\ client' = client
          /\ accessLog' = accessLog]_vars

\* C29: the commit of a confirmed PLATFORM payment leaves the client ACTIVE
\* on the transaction's plan, with the platform subscription ending
\* plan.duration_days after the old end when the client was ACTIVE with an
\* end after now, and plan.duration_days after now otherwise; the result is
\* activated_client.
C29_ClientExtendOrReset ==
  [][\A c \in Callers :
       (/\ rpc[c].st = "locked"
        /\ rpc'[c].st = "returned"
        /\ TxRow(rpc[c].inv).payment_type = "PLATFORM_SUBSCRIPTION")
       => LET t == tx'[rpc[c].inv].confirmed_at
              days == DurationDays(TxRow(rpc[c].inv).plan_id)
          IN /\ tx'[rpc[c].inv].payment_status = "CONFIRMED"
             /\ client'.status = "ACTIVE"
             /\ client'.platform_subscription_plan_id = TxRow(rpc[c].inv).plan_id
             /\ client'.platform_subscription_end =
                  IF client.status = "ACTIVE" /\ client.platform_subscription_end > t
                  THEN client.platform_subscription_end + days
                  ELSE t + days
             /\ rpc'[c].status = "success"
             /\ rpc'[c].action = "activated_client"
             /\ sub' = sub]_vars

\* A renewal confirmed on day 1 of a platform subscription that ended on day
\* 2 ends on day 4, past what a fresh start on day 1 would give.
C29_Witness ==
  /\ tx["inv2"].payment_status = "CONFIRMED"
  /\ tx["inv2"].confirmed_at = 1
  /\ client.status = "ACTIVE"
  /\ client.platform_subscription_end = 4

\* C30: the sweep repairs every disagreement: when a transaction is PENDING
\* and the sweep hears from the processor that the payment is confirming,
\* expired or failed, the transaction comes to be CONFIRMING, EXPIRED or
\* FAILED.
C30_SweepRepairsDisagreement ==
  \A r \in Unsettled :
    (tx["inv1"].payment_status = "PENDING" /\ rec.pc = "loop" /\ rec.reported = r)
      ~> (tx["inv1"].payment_status = StoredForUnsettled(r))

\* C34: a turn of withRetry whose call fails with a code from 400 to 499
\* other than 429 ends the run at once: no further call, no sleep, and that
\* error is thrown to the caller.
C34_ClientErrorIsNotRetried ==
  [][(/\ retry.pc = "loop"
      /\ retry' # retry
      /\ retry.script[retry.calls + 1].code \in 400..499
      /\ retry.script[retry.calls + 1].code # 429)
     => /\ retry'.pc = "thrown"
        /\ retry'.calls = retry.calls + 1
        /\ retry'.slept = retry.slept
        /\ retry'.error = retry.script[retry.calls + 1].code]_vars

\* A run whose first call failed with 400 or 403 has thrown that error after
\* one call and without sleeping.
C34_Witness ==
  /\ retry.pc = "thrown"
  /\ retry.script[1].code \in {400, 403}
  /\ retry.calls = 1
  /\ retry.slept = <<>>
  /\ retry.error = retry.script[1].code

\* C35: a run of withRetry whose calls all fail with an error that is
\* neither a client error nor a 429 (a 5xx, or an error without a code) makes
\* exactly three calls, waits one second before the second and two before
\* the third, and throws the error of the third call.
C35_BackoffOverThreeAttempts ==
  (/\ retry.pc \in {"returned", "thrown"}
   /\ \A j \in 1..3 : retry.script[j].code \in {0, 500})
    => /\ retry.pc = "thrown"
       /\ retry.calls = 3
       /\ retry.slept[1] = 1000
       /\ retry.slept[2] = 2000
       /\ retry.error = retry.script[3].code

\* Three calls failed, with 500, without a code and with 500, and the run
\* has thrown.
C35_Witness ==
  /\ retry.pc = "thrown"
  /\ retry.script[1].code = 500 /\ retry.script[2].code = 0 /\ retry.script[3].code = 500
  /\ retry.calls = 3
  /\ retry.error = 500

\* C40: withRetry always ends: whatever the operation answers, 429 included,
\* it is called at most retries (3) times in a run, and every run that is
\* under way comes to return or to throw.
C40_RetryTerminates ==
  /\ [](retry.calls <= Retries)
  /\ (retry.pc = "loop") ~> (retry.pc \in {"returned", "thrown"})

\* The operation answered 429 three times and the run is over after three
\* calls.
C40_Witness ==
  /\ retry.pc = "thrown"
  /\ \A j \in 1..3 : retry.script[j].code = 429
  /\ retry.calls = 3
  /\ retry.error = 429

\* The subscribers of the expiration batch.
Batch == {"sub", "peer"}

PaidAhead ==
  /\ tx["inv1"].payment_status = "CONFIRMED"
  /\ sub.subscription_end_date # NULL
  /\ sub.subscription_end_date > now

\* C38: when a renewal is confirmed after the expiration job selected the
\* subscriber and before the job writes, the subscriber is in no state
\* EXPIRED while holding a paid period end in the future, and the job
\* neither sets such a subscriber EXPIRED nor removes them from the channel.
C38_RenewalSurvivesSweep ==
  /\ [](PaidAhead => sub.subscription_status # "EXPIRED")
  /\ [][PaidAhead =>
          /\ ~(sub'.subscription_status = "EXPIRED" /\ sub.subscription_status # "EXPIRED")
          /\ ~(exp.pc = "ban" /\ chat.member /\ ~chat'.member)]_vars

\* C36: a status poll that found the processor reporting a settled payment
\* for a PENDING transaction and marked it CONFIRMED has activated the
\* subscription when it is over: the subscriber (the client for a platform
\* invoice) is ACTIVE on the plan that was paid, with a period end after now.
C36_PollConfirmationActivates ==
  [][\A p \in Polls :
       (poll[p].pc = "rpc" /\ poll'[p].pc = "done") =>
         IF p = SubscriberPoll
         THEN /\ sub'.subscription_status = "ACTIVE"
              /\ sub'.subscription_plan_id = TxRow(PollInvoice(p)).plan_id
              /\ sub'.subscription_end_date # NULL
              /\ sub'.subscription_end_date > now
         ELSE /\ client'.status = "ACTIVE"
              /\ client'.platform_subscription_plan_id = TxRow(PollInvoice(p)).plan_id
              /\ client'.platform_subscription_end # NULL
              /\ client'.platform_subscription_end > now]_vars

\* C39: for one invoice grantChannelAccess is invoked at most once, however
\* the webhook deliveries, the reconciliation passes and the manual
\* overrides for that invoice interleave (inv1 is the only open invoice of
\* the subscriber, so grants counts the invocations for it).
C39_GrantAtMostOncePerInvoice == grants <= 1

\* C37: two distinct, fully paid invoices of one subscriber that are
\* confirmed by two invocations of the procedure at the same time both count:
\* once both are CONFIRMED the period end holds both plan durations, on top
\* of the period the subscriber had when it is still running, and on top of
\* the first day of the clock (day 1) at least.
C37_BothRenewalsCount ==
  (tx["inv1"].payment_status = "CONFIRMED" /\ tx["inv3"].payment_status = "CONFIRMED")
    => /\ sub.subscription_end_date >=
            1 + DurationDays(TxRow("inv1").plan_id) + DurationDays(TxRow("inv3").plan_id)
       /\ (sub0.subscription_status = "ACTIVE" /\ sub0.subscription_end_date > now)
            => sub.subscription_end_date =
                 sub0.subscription_end_date + DurationDays(TxRow("inv1").plan_id)
                                            + DurationDays(TxRow("inv3").plan_id)

\* The transactions of a sequence.
Range(q) == {q[j] : j \in 1..Len(q)}

\* C31: a failure while one transaction is reconciled (a response that is
\* not ok, an exception, a heal that fails) never aborts the sweep: at every
\* point of the loop the transactions examined so far followed by those
\* still to come are the selected ones, each once and in order; every step
\* that meets a failure adds exactly one to the error count and goes on to
\* the next transaction; and when the run is over every selected transaction
\* was examined once and the error count is the number of failing ones.
C31_SweepSurvivesFailures ==
  /\ [](rec.pc \in {"loop", "heal", "healing"} =>
          /\ rec.examined \o rec.queue = rec.selected
          /\ rec.errors = Cardinality(rec.failed))
  /\ [](rec.pc = "done" =>
          /\ rec.examined = rec.selected
          /\ rec.failed \subseteq Range(rec.selected)
          /\ rec.errors = Cardinality(rec.failed))
  /\ [][rec'.failed # rec.failed /\ rec.pc # "done" =>
          /\ rec'.errors = rec.errors + 1
          /\ rec'.queue = Tail(rec.queue)
          /\ rec'.pc = "loop"
          /\ rec'.healed = rec.healed]_vars

\* A run is over in which the first of two selected transactions failed and
\* the second was healed.
C31_Witness ==
  /\ rec.pc = "done"
  /\ rec.selected = <<"inv1", "inv3">>
  /\ rec.examined = rec.selected
  /\ rec.failed = {"inv1"}
  /\ rec.errors = 1
  /\ rec.healed = 1
  /\ tx["inv3"].payment_status = "CONFIRMED"

====
